---------------------------- MODULE Spec2Model ----------------------------
(***************************************************************************)
(* A model of the scrabbled game core (package game): the board            *)
(* (Position, Square, Board), the player (Player), the tiles and the tile   *)
(* bag (Tile, TileBag).                                                    *)
(*                                                                         *)
(* Strings are sequences of one-character strings; a character's byte is   *)
(* Ord(c).  Go's byte arithmetic (s[0] - 'A') is modelled modulo 256.      *)
(*                                                                         *)
(* Specifications:                                                         *)
(*   Spec      the operations of one Board, called one after the other     *)
(*   PosSpec   Position.String and NewPositionFromString on one input      *)
(*   RackSpec  the rack operations of one Player, called one after the     *)
(*             other                                                       *)
(*   BagSpec   the operations of one TileBag, called one after the other   *)
(*   BagConcSpec  goroutines calling DrawTiles and ReturnTiles on one      *)
(*             TileBag at the same time                                    *)
(*   FlowSpec  tiles handed from the bag to a rack, to the board and back  *)
(*   ScoreSpec goroutines calling AddScore, GetScore and SetActive on one  *)
(*             Player at the same time                                     *)
(***************************************************************************)
EXTENDS Integers, Sequences, FiniteSets, TLC

(***************************************************************************)
(* Program constants                                                       *)
(***************************************************************************)
BoardSize == 15

MaxRackSize == 7

(***************************************************************************)
(* Bounds of the model                                                     *)
(***************************************************************************)
\* longest input string handed to NewPositionFromString
MaxStrLen == 3

\* number of probe positions the board operations are called with
NumProbes == 4

\* number of distinct tile values the operations are called with
NumTiles == 2

\* longest tile list / index list handed to one rack operation
MaxBatch == 2

\* number of DrawTiles and ReturnTiles calls made on one bag
MaxCalls == 3

\* number of tile counts DrawTiles is called with
NumCounts == 4

\* number of random sources the shuffle draws from
NumSources == 2

\* number of goroutines calling one bag
NumProcs == 2

\* number of bag, rack and board calls a tile is followed through
MaxMoves == 4

\* number of calls the goroutines make on one player's rack
MaxRackCalls == 4

\* number of assignments a caller makes to the fields of one board
MaxWrites == 2

\* number of players NewPlayer is called for
MaxCreated == 3

\* number of turns the players of one game take
MaxTurns == 4

\* number of calls the goroutines make on one bag and one player
MaxLockCalls == 3

\* number of mutating calls made on the board, the player and the bag
\* between which the inspecting operations are called
MaxMutations == 3

(***************************************************************************)
(* Characters and bytes                                                    *)
(***************************************************************************)
\* the printable ASCII characters, in byte order starting at byte 32; the
\* quote characters and the backslash are written by their byte number
Printable ==
    << " ", "!", "<34>", "#", "$", "%", "&", "<39>", "(", ")", "*", "+", ",", "-",
       ".", "/", "0", "1", "2", "3", "4", "5", "6", "7", "8", "9", ":", ";",
       "<", "=", ">", "?", "@", "A", "B", "C", "D", "E", "F", "G", "H", "I",
       "J", "K", "L", "M", "N", "O", "P", "Q", "R", "S", "T", "U", "V", "W",
       "X", "Y", "Z", "[", "<92>", "]", "^", "_", "<96>", "a", "b", "c", "d", "e",
       "f", "g", "h", "i", "j", "k", "l", "m", "n", "o", "p", "q", "r", "s",
       "t", "u", "v", "w", "x", "y", "z", "{", "|", "}", "~" >>

Chars == {Printable[i] : i \in 1..Len(Printable)}

OrdTable == [c \in Chars |-> 31 + CHOOSE i \in 1..Len(Printable) : Printable[i] = c]

Ord(c) == OrdTable[c]

Chr(b) == Printable[b - 31]

\* unicode.IsSpace on a byte
IsSpace(c) == Ord(c) \in {9, 10, 11, 12, 13, 32}

\* unicode.ToUpper on an ASCII character
UpperChar(c) == IF Ord(c) \in Ord("a")..Ord("z") THEN Chr(Ord(c) - 32) ELSE c

ToUpper(s) == [i \in 1..Len(s) |-> UpperChar(s[i])]

RECURSIVE TrimLeft(_)
TrimLeft(s) == IF s # << >> /\ IsSpace(Head(s)) THEN TrimLeft(Tail(s)) ELSE s

RECURSIVE TrimRight(_)
TrimRight(s) ==
    IF s # << >> /\ IsSpace(s[Len(s)]) THEN TrimRight(SubSeq(s, 1, Len(s) - 1)) ELSE s

TrimSpace(s) == TrimRight(TrimLeft(s))

\* the %d verb of a non-negative integer
RECURSIVE Decimal(_)
Decimal(n) ==
    IF n < 10 THEN << Chr(Ord("0") + n) >>
    ELSE Append(Decimal(n \div 10), Chr(Ord("0") + (n % 10)))

\* a byte subtraction, as Go computes it on uint8 operands
ByteSub(a, b) == (a - b) % 256

(***************************************************************************)
(* Position                                                                *)
(***************************************************************************)
Pos(r, c) == [Row |-> r, Col |-> c]

NoErr == "nil"

\* IsValid with the last row cut off
IsValidOffByOne(p) == p.Row >= 0 /\ p.Row < BoardSize - 1 /\ p.Col >= 0 /\ p.Col < BoardSize

IsValid(p) == p.Row >= 0 /\ p.Row < BoardSize /\ p.Col >= 0 /\ p.Col < BoardSize

\* String without the conversion to 1-based rows
StringZeroBased(p) ==
    IF ~IsValid(p) THEN << "I", "N", "V", "A", "L", "I", "D" >>
    ELSE << Chr(Ord("A") + p.Col) >> \o Decimal(p.Row)

String(p) ==
    IF ~IsValid(p) THEN << "I", "N", "V", "A", "L", "I", "D" >>
    ELSE << Chr(Ord("A") + p.Col) >> \o Decimal(p.Row + 1)

PosError(e) == [err |-> e, pos |-> Pos(0, 0)]

NewPositionFromString(str) ==
    LET s == ToUpper(TrimSpace(str)) IN
    IF Len(s) < 2 \/ Len(s) > 3 THEN PosError("invalid position format")
    ELSE LET col == ByteSub(Ord(s[1]), Ord("A")) IN
         IF col < 0 \/ col > 14 THEN PosError("invalid column")
         ELSE IF Len(s) = 3 /\ s[2] # "1" THEN PosError("invalid row")
         ELSE LET row == IF Len(s) = 2 THEN ByteSub(Ord(s[2]), Ord("0"))
                         ELSE 10 + ByteSub(Ord(s[3]), Ord("0")) IN
              IF row < 1 \/ row > 15 THEN PosError("invalid row")
              ELSE [err |-> NoErr, pos |-> Pos(row - 1, col)]

(***************************************************************************)
(* Tile, Square, Board                                                     *)
(***************************************************************************)
Normal == "NORMAL"

DoubleLetterScore == "DLS"

TripleLetterScore == "TLS"

DoubleWordScore == "DWS"

TripleWordScore == "TWS"

PremiumTypes ==
    {Normal, DoubleLetterScore, TripleLetterScore, DoubleWordScore, TripleWordScore}

\* a Tile value; Letter is the rune, 0 for a blank
Tile(letter, points, blank) == [Letter |-> letter, Points |-> points, IsBlank |-> blank]

\* a *Tile: Nil, or a pointer to a tile value
Nil == << >>

Ptr(t) == << t >>

Square(tile, premium, occupied) ==
    [Tile |-> tile, Premium |-> premium, Occupied |-> occupied]

\* the positions of the squares of Board.Grid, which is indexed [Row][Col]
GridPositions == {Pos(r, c) : r \in 0..(BoardSize - 1), c \in 0..(BoardSize - 1)}

\* Square.IsEmpty
SquareIsEmpty(s) == s.Tile = Nil \/ ~s.Occupied

\* one loop of initializePremiumSquares: the parse error is dropped, so a label
\* that does not parse writes to Position{} = (0,0)
RECURSIVE SetPremiums(_, _, _)
SetPremiums(grid, labels, premium) ==
    IF labels = << >> THEN grid
    ELSE LET pos == NewPositionFromString(Head(labels)).pos IN
         SetPremiums([grid EXCEPT ![pos.Row][pos.Col].Premium = premium], Tail(labels), premium)

twsPositions ==
    << <<"A","1">>, <<"A","8">>, <<"A","1","5">>, <<"H","1">>, <<"H","1","5">>,
       <<"O","1">>, <<"O","8">>, <<"O","1","5">> >>

\* the double-word list without the centre star
dwsPositionsNoCenter ==
    << <<"B","2">>, <<"C","3">>, <<"D","4">>, <<"E","5">>, <<"K","5">>,
       <<"L","4">>, <<"M","3">>, <<"N","2">>, <<"B","1","4">>, <<"C","1","3">>,
       <<"D","1","2">>, <<"E","1","1">>, <<"K","1","1">>, <<"L","1","2">>,
       <<"M","1","3">>, <<"N","1","4">> >>

dwsPositions ==
    << <<"B","2">>, <<"C","3">>, <<"D","4">>, <<"E","5">>, <<"H","8">>, <<"K","5">>,
       <<"L","4">>, <<"M","3">>, <<"N","2">>, <<"B","1","4">>, <<"C","1","3">>,
       <<"D","1","2">>, <<"E","1","1">>, <<"K","1","1">>, <<"L","1","2">>,
       <<"M","1","3">>, <<"N","1","4">> >>

tlsPositions ==
    << <<"B","6">>, <<"B","1","0">>, <<"F","2">>, <<"F","6">>, <<"F","1","0">>,
       <<"F","1","4">>, <<"J","2">>, <<"J","6">>, <<"J","1","0">>, <<"J","1","4">>,
       <<"N","6">>, <<"N","1","0">> >>

dlsPositions ==
    << <<"A","4">>, <<"A","1","2">>, <<"C","7">>, <<"C","9">>, <<"D","1">>, <<"D","8">>,
       <<"D","1","5">>, <<"G","3">>, <<"G","7">>, <<"G","9">>, <<"G","1","3">>,
       <<"H","4">>, <<"H","1","2">>, <<"I","3">>, <<"I","7">>, <<"I","9">>,
       <<"I","1","3">>, <<"L","1">>, <<"L","8">>, <<"L","1","5">>, <<"M","7">>,
       <<"M","9">>, <<"O","4">>, <<"O","1","2">> >>

initializePremiumSquares(grid) ==
    LET g1 == SetPremiums(grid, twsPositions, TripleWordScore)
        g2 == SetPremiums(g1, dwsPositions, DoubleWordScore)
        g3 == SetPremiums(g2, tlsPositions, TripleLetterScore)
    IN  SetPremiums(g3, dlsPositions, DoubleLetterScore)

NewBoard ==
    [Center |-> Pos(7, 7),
     Grid   |-> initializePremiumSquares(
                 [row \in 0..(BoardSize - 1) |->
                     [col \in 0..(BoardSize - 1) |-> Square(Nil, Normal, FALSE)]])]

IsValidPosition(b, pos) == IsValid(pos)

\* the results of the operations: the board after the call, the error and the value
Result(b, err, out) == [board |-> b, err |-> err, out |-> out]

\* square := &b.Grid[pos.Row][pos.Col]: reading it, and writing through it
SquareAt(b, pos) == b.Grid[pos.Row][pos.Col]

SetSquare(b, pos, square) == [b EXCEPT !.Grid[pos.Row][pos.Col] = square]

\* PlaceTile storing a fresh Square value, which resets the premium type
PlaceTileFreshSquare(b, tile, pos) ==
    IF ~IsValidPosition(b, pos) THEN Result(b, "invalid position", Nil)
    ELSE IF SquareAt(b, pos).Occupied THEN Result(b, "position is already occupied", Nil)
    ELSE Result(SetSquare(b, pos, Square(Ptr(tile), Normal, TRUE)), NoErr, Nil)

\* PlaceTile writing the tile before it checks the square
PlaceTileWritesThenChecks(b, tile, pos) ==
    IF ~IsValidPosition(b, pos) THEN Result(b, "invalid position", Nil)
    ELSE Result(SetSquare(b, pos, [SquareAt(b, pos) EXCEPT !.Tile = Ptr(tile),
                                                           !.Occupied = TRUE]),
                IF SquareAt(b, pos).Occupied THEN "position is already occupied"
                ELSE NoErr,
                Nil)

\* PlaceTile without the check of the square
PlaceTileOverwrites(b, tile, pos) ==
    IF ~IsValidPosition(b, pos) THEN Result(b, "invalid position", Nil)
    ELSE Result(SetSquare(b, pos, [SquareAt(b, pos) EXCEPT !.Tile = Ptr(tile),
                                                           !.Occupied = TRUE]),
                NoErr, Nil)

\* PlaceTile that stores the tile and forgets the Occupied flag
PlaceTileForgetsOccupied(b, tile, pos) ==
    IF ~IsValidPosition(b, pos) THEN Result(b, "invalid position", Nil)
    ELSE IF SquareAt(b, pos).Occupied THEN Result(b, "position is already occupied", Nil)
    ELSE Result(SetSquare(b, pos, [SquareAt(b, pos) EXCEPT !.Tile = Ptr(tile)]),
                NoErr, Nil)

\* PlaceTile giving a blank it stores one point
PlaceTileValuesBlank(b, tile, pos) ==
    IF ~IsValidPosition(b, pos) THEN Result(b, "invalid position", Nil)
    ELSE IF SquareAt(b, pos).Occupied THEN Result(b, "position is already occupied", Nil)
    ELSE Result(SetSquare(b, pos,
                    [SquareAt(b, pos) EXCEPT
                        !.Tile = Ptr(IF tile.IsBlank THEN [tile EXCEPT !.Points = 1] ELSE tile),
                        !.Occupied = TRUE]),
                NoErr, Nil)

PlaceTile(b, tile, pos) ==
    IF ~IsValidPosition(b, pos) THEN Result(b, "invalid position", Nil)
    ELSE IF SquareAt(b, pos).Occupied THEN Result(b, "position is already occupied", Nil)
    ELSE Result(SetSquare(b, pos, [SquareAt(b, pos) EXCEPT !.Tile = Ptr(tile),
                                                           !.Occupied = TRUE]),
                NoErr, Nil)

GetTile(b, pos) ==
    IF ~IsValidPosition(b, pos) THEN Nil
    ELSE IF ~SquareAt(b, pos).Occupied THEN Nil
    ELSE SquareAt(b, pos).Tile

\* a *Square: Nil, or the position of the square it points into the grid at
GetSquare(b, pos) == IF ~IsValidPosition(b, pos) THEN Nil ELSE Ptr(pos)

\* RemoveTile that clears the tile and forgets the Occupied flag
RemoveTileKeepsOccupied(b, pos) ==
    IF ~IsValidPosition(b, pos) THEN Result(b, "invalid position", Nil)
    ELSE IF ~SquareAt(b, pos).Occupied THEN Result(b, "no tile at position", Nil)
    ELSE Result(SetSquare(b, pos, [SquareAt(b, pos) EXCEPT !.Tile = Nil]),
                NoErr, SquareAt(b, pos).Tile)

RemoveTile(b, pos) ==
    IF ~IsValidPosition(b, pos) THEN Result(b, "invalid position", Nil)
    ELSE IF ~SquareAt(b, pos).Occupied THEN Result(b, "no tile at position", Nil)
    ELSE Result(SetSquare(b, pos, [SquareAt(b, pos) EXCEPT !.Tile = Nil,
                                                           !.Occupied = FALSE]),
                NoErr, SquareAt(b, pos).Tile)

IsEmpty(b, pos) ==
    IF ~IsValidPosition(b, pos) THEN FALSE ELSE SquareIsEmpty(SquareAt(b, pos))

\* the directions without the one to the right
directionsWithoutRight == << Pos(-1, 0), Pos(1, 0), Pos(0, -1) >>

directions == << Pos(-1, 0), Pos(1, 0), Pos(0, -1), Pos(0, 1) >>

RECURSIVE AppendValid(_, _, _, _)
AppendValid(b, pos, i, adjacent) ==
    IF i > Len(directions) THEN adjacent
    ELSE LET newPos == Pos(pos.Row + directions[i].Row, pos.Col + directions[i].Col) IN
         AppendValid(b, pos, i + 1,
                     IF IsValidPosition(b, newPos) THEN Append(adjacent, newPos)
                     ELSE adjacent)

\* a slice: the nil slice, or a non-nil slice holding items
NilSlice == [nil |-> TRUE, items |-> << >>]

Slice(items) == [nil |-> FALSE, items |-> items]

GetAdjacentPositions(b, pos) ==
    IF ~IsValidPosition(b, pos) THEN NilSlice ELSE Slice(AppendValid(b, pos, 1, << >>))

GetPremiumType(b, pos) ==
    IF ~IsValidPosition(b, pos) THEN Normal ELSE SquareAt(b, pos).Premium

HasTileAt(b, pos) ==
    IF ~IsValidPosition(b, pos) THEN FALSE ELSE SquareAt(b, pos).Occupied

CountPremiumSquares(b) ==
    [pt \in PremiumTypes |->
        Cardinality({p \in GridPositions : SquareAt(b, p).Premium = pt})]

expectedCounts ==
    [pt \in PremiumTypes |->
        CASE pt = Normal -> 164
          [] pt = DoubleLetterScore -> 24
          [] pt = TripleLetterScore -> 12
          [] pt = DoubleWordScore -> 17
          [] pt = TripleWordScore -> 8]

\* ValidateBoard without the check of the centre square
ValidateBoardCountsOnly(b) ==
    IF b.Center.Row # 7 \/ b.Center.Col # 7 THEN "center position must be H8"
    ELSE IF \E pt \in PremiumTypes : CountPremiumSquares(b)[pt] # expectedCounts[pt]
         THEN "premium square count mismatch"
    ELSE NoErr

ValidateBoard(b) ==
    IF b.Center.Row # 7 \/ b.Center.Col # 7 THEN "center position must be H8"
    ELSE IF \E pt \in PremiumTypes : CountPremiumSquares(b)[pt] # expectedCounts[pt]
         THEN "premium square count mismatch"
    ELSE IF SquareAt(b, b.Center).Premium # DoubleWordScore
         THEN "center square must be a Double Word Score"
    ELSE NoErr

\* IsFirstMove looking at the centre square only
IsFirstMoveLooksAtCenter(b) == ~SquareAt(b, b.Center).Occupied

IsFirstMove(b) ==
    ~\E row \in 0..(BoardSize - 1), col \in 0..(BoardSize - 1) : b.Grid[row][col].Occupied

\* the positions in the order of the loops: row by row, each by column
scanOrder ==
    [k \in 1..(BoardSize * BoardSize) |->
        Pos((k - 1) \div BoardSize, (k - 1) % BoardSize)]

\* positions = append(positions, Position{Row: row, Col: col}) for the
\* occupied squares, in the order of the loops
GetOccupiedPositions(b) ==
    Slice(SelectSeq(scanOrder, LAMBDA p : b.Grid[p.Row][p.Col].Occupied))

(***************************************************************************)
(* Player                                                                  *)
(***************************************************************************)
generatePlayerID == "player_4"

\* sync.RWMutex: the goroutine holding it for writing (0 for none) and the
\* goroutines holding it for reading
RWUnlocked == [writer |-> 0, readers |-> {}]

NewPlayer(id, name) ==
    [ID       |-> IF id = "" THEN generatePlayerID ELSE id,
     Name     |-> name,
     Rack     |-> << >>,
     Score    |-> 0,
     IsActive |-> TRUE,
     mu       |-> RWUnlocked]

GetRackSize(p) == Len(p.Rack)

\* the results of the rack operations: the player after the call, the error, the value
PResult(p, err, out) == [player |-> p, err |-> err, out |-> out]

\* AddTilesToRack comparing the old rack size alone with the capacity
AddTilesToRackChecksOldSize(p, tiles) ==
    IF Len(tiles) = 0 THEN PResult(p, NoErr, << >>)
    ELSE IF Len(p.Rack) > MaxRackSize
         THEN PResult(p, "would exceed rack capacity", << >>)
    ELSE PResult([p EXCEPT !.Rack = p.Rack \o tiles], NoErr, << >>)

\* AddTilesToRack filling the rack with the tiles that fit before it fails
AddTilesToRackFillsThenFails(p, tiles) ==
    IF Len(tiles) = 0 THEN PResult(p, NoErr, << >>)
    ELSE IF Len(p.Rack) + Len(tiles) > MaxRackSize
         THEN PResult([p EXCEPT !.Rack =
                          p.Rack \o SubSeq(tiles, 1, MaxRackSize - Len(p.Rack))],
                      "would exceed rack capacity", << >>)
    ELSE PResult([p EXCEPT !.Rack = p.Rack \o tiles], NoErr, << >>)

AddTilesToRack(p, tiles) ==
    IF Len(tiles) = 0 THEN PResult(p, NoErr, << >>)
    ELSE IF Len(p.Rack) + Len(tiles) > MaxRackSize
         THEN PResult(p, "would exceed rack capacity", << >>)
    ELSE PResult([p EXCEPT !.Rack = p.Rack \o tiles], NoErr, << >>)

\* sort.Sort(sort.Reverse(sort.IntSlice(s))): s in descending order
RECURSIVE SortDescending(_)
SortDescending(s) ==
    IF s = << >> THEN << >>
    ELSE LET i == CHOOSE k \in 1..Len(s) : \A j \in 1..Len(s) : s[j] <= s[k] IN
         << s[i] >> \o SortDescending(SubSeq(s, 1, i - 1) \o SubSeq(s, i + 1, Len(s)))

\* append(rack[:index], rack[index+1:]...), index counted from 0
RemoveAt(rack, index) == SubSeq(rack, 1, index) \o SubSeq(rack, index + 2, Len(rack))

RECURSIVE RemoveEach(_, _)
RemoveEach(rack, sortedIndices) ==
    IF sortedIndices = << >> THEN rack
    ELSE RemoveEach(RemoveAt(rack, Head(sortedIndices)), Tail(sortedIndices))

\* RemoveTilesFromRack removing in the order the indices were given
RemoveTilesFromRackUnsorted(p, indices) ==
    IF Len(indices) = 0 THEN PResult(p, NoErr, << >>)
    ELSE IF \E i \in 1..Len(indices) : indices[i] < 0 \/ indices[i] >= Len(p.Rack)
         THEN PResult(p, "invalid rack index", << >>)
    ELSE IF \E i, j \in 1..Len(indices) : i < j /\ indices[i] = indices[j]
         THEN PResult(p, "duplicate index", << >>)
    ELSE PResult([p EXCEPT !.Rack = RemoveEach(p.Rack, indices)],
                 NoErr,
                 [i \in 1..Len(indices) |-> p.Rack[indices[i] + 1]])

RemoveTilesFromRack(p, indices) ==
    IF Len(indices) = 0 THEN PResult(p, NoErr, << >>)
    ELSE IF \E i \in 1..Len(indices) : indices[i] < 0 \/ indices[i] >= Len(p.Rack)
         THEN PResult(p, "invalid rack index", << >>)
    ELSE IF \E i, j \in 1..Len(indices) : i < j /\ indices[i] = indices[j]
         THEN PResult(p, "duplicate index", << >>)
    ELSE PResult([p EXCEPT !.Rack = RemoveEach(p.Rack, SortDescending(indices))],
                 NoErr,
                 [i \in 1..Len(indices) |-> p.Rack[indices[i] + 1]])

tilesEqual(a, b) == a.Letter = b.Letter /\ a.Points = b.Points /\ a.IsBlank = b.IsBlank

\* the inner loop of RemoveTilesByValue and HasTiles: the rack copy without its
\* first tile equal to the given one, or found FALSE
RemoveFirstEqual(rackCopy, tile) ==
    IF \E i \in 1..Len(rackCopy) : tilesEqual(rackCopy[i], tile)
    THEN LET i == CHOOSE k \in 1..Len(rackCopy) :
                      /\ tilesEqual(rackCopy[k], tile)
                      /\ \A j \in 1..(k - 1) : ~tilesEqual(rackCopy[j], tile)
         IN  [found |-> TRUE, rackCopy |-> RemoveAt(rackCopy, i - 1)]
    ELSE [found |-> FALSE, rackCopy |-> rackCopy]

\* the outer loop: the rack copy after all tiles were found, or found FALSE
RECURSIVE RemoveAllEqual(_, _)
RemoveAllEqual(rackCopy, tiles) ==
    IF tiles = << >> THEN [found |-> TRUE, rackCopy |-> rackCopy]
    ELSE LET r == RemoveFirstEqual(rackCopy, Head(tiles)) IN
         IF r.found THEN RemoveAllEqual(r.rackCopy, Tail(tiles)) ELSE r

\* RemoveTilesByValue removing from p.Rack itself, so that a failure keeps the
\* removals made before it
RemoveTilesByValueInPlace(p, tiles) ==
    IF Len(tiles) = 0 THEN PResult(p, NoErr, << >>)
    ELSE LET r == RemoveAllEqual(p.Rack, tiles) IN
         IF ~r.found
         THEN PResult([p EXCEPT !.Rack = r.rackCopy], "tile not found in rack", << >>)
         ELSE PResult([p EXCEPT !.Rack = r.rackCopy], NoErr, << >>)

RemoveTilesByValue(p, tiles) ==
    IF Len(tiles) = 0 THEN PResult(p, NoErr, << >>)
    ELSE LET r == RemoveAllEqual(p.Rack, tiles) IN
         IF ~r.found THEN PResult(p, "tile not found in rack", << >>)
         ELSE PResult([p EXCEPT !.Rack = r.rackCopy], NoErr, << >>)

HasTile(p, tile) == \E i \in 1..Len(p.Rack) : tilesEqual(p.Rack[i], tile)

\* HasTiles looking each required tile up in the rack itself, where a tile
\* found once is found again
HasTilesReusesTiles(p, tiles) ==
    IF Len(tiles) = 0 THEN TRUE
    ELSE \A i \in 1..Len(tiles) : HasTile(p, tiles[i])

\* the loop of HasTiles is the loop of RemoveTilesByValue on a copy of the rack
HasTiles(p, tiles) ==
    IF Len(tiles) = 0 THEN TRUE
    ELSE RemoveAllEqual(p.Rack, tiles).found

\* HasTiles searching p.Rack itself: the rack it leaves
RackAfterHasTilesInPlace(p, tiles) ==
    IF Len(tiles) = 0 THEN p.Rack ELSE RemoveAllEqual(p.Rack, tiles).rackCopy

\* p.Rack when HasTiles returns: the loop removes from rackCopy, an array of
\* its own that make and copy filled
RackAfterHasTiles(p, tiles) == p.Rack

IsRackFull(p) == Len(p.Rack) >= MaxRackSize

IsRackEmpty(p) == Len(p.Rack) = 0

ClearRack(p) == PResult([p EXCEPT !.Rack = << >>], NoErr, p.Rack)

\* a slice of tiles: the array it points into and the tiles it shows
TileSlice(array, items) == [array |-> array, items |-> items]

\* GetRack returning p.Rack itself
GetRackReturnsRack(p) == TileSlice("p.Rack", p.Rack)

\* rack := make([]Tile, len(p.Rack)); copy(rack, p.Rack): a new array that
\* holds the elements of p.Rack
GetRack(p) == TileSlice("rack", [i \in 1..Len(p.Rack) |-> p.Rack[i]])

\* total += tile.Points over the tiles from position i on
RECURSIVE total(_, _)
total(rack, i) ==
    IF i > Len(rack) THEN 0
    ELSE rack[i].Points + total(rack, i + 1)

\* GetRackValue leaving the first tile of the rack out
GetRackValueSkipsFirst(p) == total(p.Rack, 2)

GetRackValue(p) == total(p.Rack, 1)

\* GetTileCount counting every tile of the rack but the first
GetTileCountSkipsFirst(p, letter) ==
    Cardinality({i \in 2..Len(p.Rack) : p.Rack[i].Letter = letter})

GetTileCount(p, letter) ==
    Cardinality({i \in 1..Len(p.Rack) : p.Rack[i].Letter = letter})

GetBlankCount(p) == Cardinality({i \in 1..Len(p.Rack) : p.Rack[i].IsBlank})

\* the checks of ValidatePlayer on the rack tiles from the i-th on
RECURSIVE ValidateRack(_, _)
ValidateRack(rack, i) ==
    IF i > Len(rack) THEN NoErr
    ELSE IF rack[i].Points < 0 THEN "tile has negative points"
    ELSE IF rack[i].IsBlank /\ (rack[i].Points # 0 \/ rack[i].Letter # 0)
    THEN "blank tile has invalid properties"
    ELSE IF ~rack[i].IsBlank /\ rack[i].Letter = 0 THEN "non-blank tile has no letter"
    ELSE ValidateRack(rack, i + 1)

ValidatePlayer(p) ==
    IF p.ID = "" THEN "player ID cannot be empty"
    ELSE IF p.Name = "" THEN "player name cannot be empty"
    ELSE IF Len(p.Rack) > MaxRackSize THEN "rack size exceeds maximum"
    ELSE IF p.Score < 0 THEN "player has negative score"
    ELSE ValidateRack(p.Rack, 1)

\* rackStr of Player.String without its brackets: "_" for a blank, the letter
\* otherwise, ", " between two tiles
RECURSIVE rackStr(_, _)
rackStr(rack, i) ==
    IF i > Len(rack) THEN << >>
    ELSE (IF i > 1 THEN << ",", " " >> ELSE << >>)
         \o << IF rack[i].IsBlank THEN "_" ELSE Chr(rack[i].Letter) >>
         \o rackStr(rack, i + 1)

\* %d of an int
FormatInt(n) == IF n < 0 THEN << "-" >> \o Decimal(0 - n) ELSE Decimal(n)

\* Player.String: the pieces fmt.Sprintf puts one after the other
PlayerString(p) ==
    << "Player{ID: ", p.ID, ", Name: ", p.Name, ", Score: ", FormatInt(p.Score),
       ", Rack: ", << "[" >> \o rackStr(p.Rack, 1) \o << "]" >>,
       " (", FormatInt(Len(p.Rack)), "/7), Status: ",
       IF p.IsActive THEN "active" ELSE "inactive", "}" >>

GetScore(p) == p.Score

AddScore(p, points) == [p EXCEPT !.Score = p.Score + points]

SetScore(p, score) == [p EXCEPT !.Score = score]

IsPlayerActive(p) == p.IsActive

SetActive(p, active) == [p EXCEPT !.IsActive = active]

\* p.mu.Lock() going ahead whoever holds the mutex
CanWLockWhileHeld(mu) == TRUE

\* p.mu.Lock() goes ahead when no goroutine holds the mutex
CanWLock(mu) == mu.writer = 0 /\ mu.readers = {}

\* p.mu.RLock() goes ahead when no goroutine holds the mutex for writing
CanRLock(mu) == mu.writer = 0

(***************************************************************************)
(* Tile bag                                                                *)
(***************************************************************************)
blankTileCount == 2

Dist(quantity, points) == [quantity |-> quantity, points |-> points]

Letters == Ord("A")..Ord("Z")

\* the entries of standardTileDistribution for A to Z
distributionTable ==
    << Dist(9, 1), Dist(2, 3), Dist(2, 3), Dist(4, 2), Dist(12, 1),
       Dist(2, 4), Dist(3, 2), Dist(2, 4), Dist(9, 1), Dist(1, 8),
       Dist(1, 5), Dist(4, 1), Dist(2, 3), Dist(6, 1), Dist(8, 1),
       Dist(2, 3), Dist(1, 10), Dist(6, 1), Dist(4, 1), Dist(6, 1),
       Dist(4, 1), Dist(2, 4), Dist(2, 4), Dist(1, 8), Dist(2, 4),
       Dist(1, 10) >>

\* the distribution with one E less
standardTileDistributionShortOfOneE ==
    [letter \in Letters |->
        IF letter = Ord("E") THEN Dist(11, 1)
        ELSE distributionTable[letter - Ord("A") + 1]]

standardTileDistribution ==
    [letter \in Letters |-> distributionTable[letter - Ord("A") + 1]]

\* sync.Mutex: 0 when unlocked, else the goroutine holding it
Unlocked == 0

TileBag(tiles, mu) == [tiles |-> tiles, mu |-> mu]

\* tb.mu.Lock() going ahead whoever holds the mutex
CanLockWhileHeld(tb) == TRUE

\* tb.mu.Lock() goes ahead when no goroutine holds the mutex
CanLock(tb) == tb.mu = Unlocked

Repeat(tile, n) == [i \in 1..n |-> tile]

\* the letter tiles of NewTileBag from the given letter on; Go ranges over the
\* map in an unspecified order, and the bag is shuffled afterwards
RECURSIVE letterTiles(_)
letterTiles(letter) ==
    IF letter > Ord("Z") THEN << >>
    ELSE Repeat(Tile(letter, standardTileDistribution[letter].points, FALSE),
                standardTileDistribution[letter].quantity)
         \o letterTiles(letter + 1)

blankTiles == Repeat(Tile(0, 0, TRUE), blankTileCount)

\* rand.Intn(n) of the random source src: source 1 answers 0, source 2
\* answers n - 1, source 3 answers n - 2, ...
Intn(src, n) == ((src - 1) * (n - 1)) % n

\* tiles[i], tiles[j] = tiles[j], tiles[i], indices counted from 0
Swap(tiles, i, j) == [tiles EXCEPT ![i + 1] = tiles[j + 1], ![j + 1] = tiles[i + 1]]

\* the iterations i = hi, hi - 1, ..., lo of the loop of shuffle, the upper
\* half of them before the lower half
RECURSIVE shuffleSteps(_, _, _, _)
shuffleSteps(tiles, hi, lo, src) ==
    IF Len(tiles) < 2 \/ hi < lo THEN tiles
    ELSE IF hi = lo THEN Swap(tiles, hi, Intn(src, hi + 1))
    ELSE LET mid == (hi + lo) \div 2 IN
         shuffleSteps(shuffleSteps(tiles, hi, mid + 1, src), mid, lo, src)

\* for i := len(tb.tiles) - 1; i > 0; i--
shuffle(tiles, src) == shuffleSteps(tiles, Len(tiles) - 1, 1, src)

NewTileBag(src) == TileBag(shuffle(letterTiles(Ord("A")) \o blankTiles, src), Unlocked)

\* the results of the bag operations: the bag after the call and the value
BResult(tb, out) == [bag |-> tb, out |-> out]

\* DrawTiles taking the tiles and leaving them in the bag
DrawTilesKeepsTiles(tb, count) ==
    IF count <= 0 THEN BResult(tb, << >>)
    ELSE LET available == Len(tb.tiles)
             n == IF count > available THEN available ELSE count
         IN  BResult(tb, SubSeq(tb.tiles, available - n + 1, available))

DrawTiles(tb, count) ==
    IF count <= 0 THEN BResult(tb, << >>)
    ELSE LET available == Len(tb.tiles)
             n == IF count > available THEN available ELSE count
         IN  BResult([tb EXCEPT !.tiles = SubSeq(tb.tiles, 1, available - n)],
                     SubSeq(tb.tiles, available - n + 1, available))

\* ReturnTiles dropping the last tile handed to it
ReturnTilesDropsOne(tb, tiles, src) ==
    BResult([tb EXCEPT !.tiles = shuffle(tb.tiles \o SubSeq(tiles, 1, Len(tiles) - 1), src)],
            << >>)

ReturnTiles(tb, tiles, src) ==
    BResult([tb EXCEPT !.tiles = shuffle(tb.tiles \o tiles, src)], << >>)

RemainingCount(tb) == Len(tb.tiles)

BagIsEmpty(tb) == RemainingCount(tb) = 0

GetTileValue(letter) ==
    IF letter \in DOMAIN standardTileDistribution
    THEN standardTileDistribution[letter].points
    ELSE 0

GetTileQuantity(letter) ==
    IF letter \in DOMAIN standardTileDistribution
    THEN standardTileDistribution[letter].quantity
    ELSE IF letter = 0 THEN blankTileCount
    ELSE 0

RECURSIVE SumQuantities(_)
SumQuantities(letter) ==
    IF letter > Ord("Z") THEN 0
    ELSE standardTileDistribution[letter].quantity + SumQuantities(letter + 1)

ValidateTileDistribution ==
    IF SumQuantities(Ord("A")) + blankTileCount # 100
    THEN "tile distribution does not total 100 tiles"
    ELSE NoErr

(***************************************************************************)
(* The rules engine: Move Validator, Word Extractor, Dictionary Gate and   *)
(* Scorer, each a function of a board and a proposed placement             *)
(***************************************************************************)
\* a Tile bound to a Position
PlacedTile(tile, pos) == [Tile |-> tile, Position |-> pos]

\* the positions of a placement, in its order
PlacedPositions(placed) == [i \in 1..Len(placed) |-> placed[i].Position]

\* the tiles of a placement, in its order
PlacedTiles(placed) == [i \in 1..Len(placed) |-> placed[i].Tile]

\* the tile as the rack holds it: a blank carries no letter before it is played
RackForm(tile) == IF tile.IsBlank THEN Tile(0, 0, TRUE) ELSE tile

SetOf(s) == {s[i] : i \in 1..Len(s)}

MinOf(S) == CHOOSE x \in S : \A y \in S : x <= y

MaxOf(S) == CHOOSE x \in S : \A y \in S : y <= x

\* the placement sorted by position: by column along a row, by row along a column
RECURSIVE SortPlaced(_)
SortPlaced(placed) ==
    IF placed = << >> THEN << >>
    ELSE LET i == CHOOSE k \in 1..Len(placed) :
                      \A j \in 1..Len(placed) :
                          \/ placed[k].Position.Row < placed[j].Position.Row
                          \/ /\ placed[k].Position.Row = placed[j].Position.Row
                             /\ placed[k].Position.Col <= placed[j].Position.Col
         IN  << placed[i] >>
                 \o SortPlaced(SubSeq(placed, 1, i - 1) \o SubSeq(placed, i + 1, Len(placed)))

\* the positions from the lowest to the highest placed coordinate on the line
Span(placed, horizontal) ==
    LET ps == SetOf(PlacedPositions(placed)) IN
    IF horizontal
    THEN {Pos((CHOOSE p \in ps : TRUE).Row, c) :
              c \in MinOf({p.Col : p \in ps})..MaxOf({p.Col : p \in ps})}
    ELSE {Pos(r, (CHOOSE p \in ps : TRUE).Col) :
              r \in MinOf({p.Row : p \in ps})..MaxOf({p.Row : p \in ps})}

Validated(err, horizontal, placed) ==
    [err |-> err, horizontal |-> horizontal, placed |-> placed]

\* the five rules of the validator, in order; two tiles of one placement on
\* the same position count as the second one meeting an occupied position
ValidateMove(b, placed, isFirstMove) ==
    LET ps == SetOf(PlacedPositions(placed))
        horizontal == \A p, q \in ps : p.Row = q.Row
        vertical == \A p, q \in ps : p.Col = q.Col
    IN
    IF placed = << >> \/ \E p \in ps : ~IsValidPosition(b, p)
    THEN Validated("PositionInvalid", TRUE, << >>)
    ELSE IF (\E p \in ps : HasTileAt(b, p)) \/ Cardinality(ps) # Len(placed)
    THEN Validated("PositionOccupied", TRUE, << >>)
    ELSE IF ~horizontal /\ ~vertical
    THEN Validated("InvalidLayout", TRUE, << >>)
    ELSE IF \E p \in Span(placed, horizontal) : p \notin ps /\ ~HasTileAt(b, p)
    THEN Validated("Disconnected", horizontal, << >>)
    ELSE IF isFirstMove /\ b.Center \notin Span(placed, horizontal)
    THEN Validated("MustCoverCenter", horizontal, << >>)
    ELSE IF /\ ~isFirstMove
            /\ ~\E p \in ps : \E q \in SetOf(GetAdjacentPositions(b, p).items) :
                                  HasTileAt(b, q)
            /\ ~\E p \in Span(placed, horizontal) : HasTileAt(b, p)
    THEN Validated("NotConnected", horizontal, << >>)
    ELSE Validated(NoErr, horizontal, SortPlaced(placed))

\* the board with the proposed tiles placed on it, one PlaceTile after the other
RECURSIVE Hypothetical(_, _)
Hypothetical(b, placed) ==
    IF placed = << >> THEN b
    ELSE Hypothetical(PlaceTile(b, Head(placed).Tile, Head(placed).Position).board,
                      Tail(placed))

\* the position with coordinate k on the line through p
OnLine(p, horizontal, k) == IF horizontal THEN Pos(p.Row, k) ELSE Pos(k, p.Col)

\* the maximal run of occupied squares through p along the line, in order
RunThrough(b, p, horizontal) ==
    LET c  == IF horizontal THEN p.Col ELSE p.Row
        lo == MinOf({k \in 0..c : \A j \in k..c : HasTileAt(b, OnLine(p, horizontal, j))})
        hi == MaxOf({k \in c..(BoardSize - 1) :
                         \A j \in c..k : HasTileAt(b, OnLine(p, horizontal, j))})
    IN  [i \in 1..(hi - lo + 1) |-> OnLine(p, horizontal, lo + i - 1)]

\* a formed word: its letters, its positions, and which of them are new
FormedWord(b, positions, placed) ==
    [letters   |-> [i \in 1..Len(positions) |-> GetTile(b, positions[i])[1].Letter],
     positions |-> positions,
     isNew     |-> [i \in 1..Len(positions) |->
                       positions[i] \in SetOf(PlacedPositions(placed))]]

\* the cross words of the placed tiles from the i-th on
RECURSIVE CrossWords(_, _, _, _)
CrossWords(b, placed, horizontal, i) ==
    IF i > Len(placed) THEN << >>
    ELSE LET run == RunThrough(b, placed[i].Position, ~horizontal) IN
         (IF Len(run) > 1 THEN << FormedWord(b, run, placed) >> ELSE << >>)
             \o CrossWords(b, placed, horizontal, i + 1)

Extracted(err, words) == [err |-> err, words |-> words]

\* the main word and the cross words of a validated placement
ExtractWords(b, placed, horizontal) ==
    LET hb   == Hypothetical(b, placed)
        main == RunThrough(hb, placed[1].Position, horizontal)
        words == (IF Len(main) > 1 THEN << FormedWord(hb, main, placed) >> ELSE << >>)
                     \o CrossWords(hb, placed, horizontal, 1)
    IN  IF words = << >> THEN Extracted("NoWordFormed", << >>)
        ELSE Extracted(NoErr, words)

\* the dictionary's answer: the oracle of a game recognises the words whose
\* length is in dict
IsWord(dict, letters) == Len(letters) \in dict

\* every extracted word is checked
CheckWords(dict, words) ==
    IF \E i \in 1..Len(words) : ~IsWord(dict, words[i].letters) THEN "InvalidWord"
    ELSE NoErr

LetterMultiplier(premium) ==
    IF premium = DoubleLetterScore THEN 2
    ELSE IF premium = TripleLetterScore THEN 3
    ELSE 1

WordMultiplier(premium) ==
    IF premium = DoubleWordScore THEN 2
    ELSE IF premium = TripleWordScore THEN 3
    ELSE 1

\* the letter-multiplied sum of the positions of a word from the i-th on
RECURSIVE BaseSum(_, _, _)
BaseSum(b, word, i) ==
    IF i > Len(word.positions) THEN 0
    ELSE GetTile(b, word.positions[i])[1].Points
             * (IF word.isNew[i]
                THEN LetterMultiplier(GetPremiumType(b, word.positions[i]))
                ELSE 1)
         + BaseSum(b, word, i + 1)

\* the product of the word multipliers of the new positions from the i-th on
RECURSIVE WordFactor(_, _, _)
WordFactor(b, word, i) ==
    IF i > Len(word.positions) THEN 1
    ELSE (IF word.isNew[i] THEN WordMultiplier(GetPremiumType(b, word.positions[i]))
          ELSE 1)
         * WordFactor(b, word, i + 1)

ScoreWord(b, word) == BaseSum(b, word, 1) * WordFactor(b, word, 1)

RECURSIVE ScoreWords(_, _, _)
ScoreWords(b, words, i) ==
    IF i > Len(words) THEN 0
    ELSE ScoreWord(b, words[i]) + ScoreWords(b, words, i + 1)

\* the total of the formed words on the board that holds them, and 50 more
\* for a move of seven tiles
ScoreMove(b, words, placed) ==
    ScoreWords(b, words, 1) + (IF Len(placed) = MaxRackSize THEN 50 ELSE 0)

(***************************************************************************)
(* The Turn/Game Controller: the game's board, tile supply, players, turn  *)
(* index, state and history, and one full turn as a function of them       *)
(***************************************************************************)
WaitingForPlayers == "WaitingForPlayers"

InProgress == "InProgress"

Finished == "Finished"

\* a game nobody has joined; NonScoring counts, per player, the non-scoring
\* turns taken in a row, Turns the turns taken, and Source is the random
\* source of the shuffles of its supply
NewGame(dict, src) ==
    [State |-> WaitingForPlayers, Players |-> << >>, CurrentTurn |-> 0,
     History |-> << >>, NonScoring |-> << >>, Turns |-> 0, Dictionary |-> dict,
     Source |-> src]

\* a history entry
Move(id, placed, score, words) ==
    [PlayerID |-> id, Tiles |-> placed, Score |-> score, CreatedWords |-> words]

\* what a call on the game leaves: the game, its board, its tile supply
GResult(g, b, tb, err) == [game |-> g, board |-> b, bag |-> tb, err |-> err]

\* a player joins a game that has not started
AddPlayer(g, b, tb, id, name) ==
    IF g.State # WaitingForPlayers THEN GResult(g, b, tb, "GameNotWaiting")
    ELSE GResult([g EXCEPT !.Players = Append(g.Players, NewPlayer(id, name)),
                           !.NonScoring = Append(g.NonScoring, 0)],
                 b, tb, NoErr)

\* the racks of the players from the i-th on are filled from the supply
RECURSIVE FillRacks(_, _, _)
FillRacks(players, tb, i) ==
    IF i > Len(players) THEN [players |-> players, bag |-> tb]
    ELSE LET d == DrawTiles(tb, MaxRackSize - GetRackSize(players[i]))
             a == AddTilesToRack(players[i], d.out)
         IN  FillRacks([players EXCEPT ![i] = a.player], d.bag, i + 1)

\* the explicit start: two to four players, each draws a full rack
StartGame(g, b, tb) ==
    IF g.State # WaitingForPlayers THEN GResult(g, b, tb, "GameNotWaiting")
    ELSE IF Len(g.Players) < 2 \/ Len(g.Players) > 4
    THEN GResult(g, b, tb, "PlayerCount")
    ELSE LET f == FillRacks(g.Players, tb, 1) IN
         GResult([g EXCEPT !.State = InProgress, !.Players = f.players,
                           !.CurrentTurn = 0],
                 b, f.bag, NoErr)

\* the game ends when the supply is exhausted and the player who just moved
\* has an empty rack, or when every active player has taken two non-scoring
\* turns in a row
GameOver(g, tb, who) ==
    \/ BagIsEmpty(tb) /\ IsRackEmpty(g.Players[who])
    \/ \A i \in 1..Len(g.Players) :
           IsPlayerActive(g.Players[i]) => g.NonScoring[i] >= 2

\* the turn passes to the next player in rotation, and the game ends if it is over
Advance(g, tb, who) ==
    [g EXCEPT !.CurrentTurn = (g.CurrentTurn + 1) % Len(g.Players),
              !.Turns = g.Turns + 1,
              !.State = IF GameOver(g, tb, who) THEN Finished ELSE InProgress]

\* TurnError letting a player act whatever the state of the game
TurnErrorIgnoresState(g, who) ==
    IF who # g.CurrentTurn + 1 THEN "NotPlayersTurn" ELSE NoErr

\* who may act: the game is in progress and it is the player's turn
TurnError(g, who) ==
    IF g.State # InProgress THEN "GameNotInProgress"
    ELSE IF who # g.CurrentTurn + 1 THEN "NotPlayersTurn"
    ELSE NoErr

\* the tiles are placed on the game's board, one PlaceTile after the other,
\* up to the first that fails
RECURSIVE PlaceAll(_, _)
PlaceAll(b, placed) ==
    IF placed = << >> THEN Result(b, NoErr, Nil)
    ELSE LET r == PlaceTile(b, Head(placed).Tile, Head(placed).Position) IN
         IF r.err # NoErr THEN r ELSE PlaceAll(r.board, Tail(placed))

\* the commit of a move that passed every stage: the board, then the rack,
\* then the refill, the score, the history and the turn; a step that fails
\* stops the commit where it is
ApplyMove(g, b, tb, who, placed, words, score) ==
    LET pl == PlaceAll(b, placed)
        rm == RemoveTilesByValue(g.Players[who],
                                 [i \in 1..Len(placed) |-> RackForm(placed[i].Tile)])
        dr == DrawTiles(tb, MaxRackSize - GetRackSize(rm.player))
        ad == AddTilesToRack(rm.player, dr.out)
        g1 == [g EXCEPT !.Players[who] = AddScore(ad.player, score),
                        !.History = Append(g.History,
                                           Move(g.Players[who].ID, placed, score,
                                                [i \in 1..Len(words) |-> words[i].letters])),
                        !.NonScoring = [i \in 1..Len(g.Players) |-> 0]]
    IN  IF pl.err # NoErr THEN GResult(g, pl.board, tb, pl.err)
        ELSE IF rm.err # NoErr THEN GResult(g, pl.board, tb, "RackMismatch")
        ELSE IF ad.err # NoErr
        THEN GResult([g EXCEPT !.Players[who] = rm.player], pl.board, dr.bag, "RackOverflow")
        ELSE GResult(Advance(g1, dr.bag, who), pl.board, dr.bag, NoErr)

\* a Move: validator, extractor, dictionary gate, scorer and the rack check,
\* then the commit
SubmitMove(g, b, tb, who, placed) ==
    LET v  == ValidateMove(b, placed, IsFirstMove(b))
        x  == ExtractWords(b, v.placed, v.horizontal)
        hb == Hypothetical(b, v.placed)
    IN  IF TurnError(g, who) # NoErr THEN GResult(g, b, tb, TurnError(g, who))
        ELSE IF v.err # NoErr THEN GResult(g, b, tb, v.err)
        ELSE IF x.err # NoErr THEN GResult(g, b, tb, x.err)
        ELSE IF CheckWords(g.Dictionary, x.words) # NoErr
        THEN GResult(g, b, tb, CheckWords(g.Dictionary, x.words))
        ELSE IF ~HasTiles(g.Players[who],
                          [i \in 1..Len(placed) |-> RackForm(placed[i].Tile)])
        THEN GResult(g, b, tb, "RackMismatch")
        ELSE ApplyMove(g, b, tb, who, v.placed, x.words, ScoreMove(hb, x.words, v.placed))

\* an Exchange: the chosen rack tiles go back to the supply and as many are drawn
Exchange(g, b, tb, who, indices) ==
    LET rm == RemoveTilesFromRack(g.Players[who], indices)
        rt == ReturnTiles(tb, rm.out, g.Source)
        dr == DrawTiles(rt.bag, Len(rm.out))
        ad == AddTilesToRack(rm.player, dr.out)
        g1 == [g EXCEPT !.Players[who] = ad.player,
                        !.NonScoring[who] = g.NonScoring[who] + 1]
    IN  IF TurnError(g, who) # NoErr THEN GResult(g, b, tb, TurnError(g, who))
        ELSE IF RemainingCount(tb) < MaxRackSize
        THEN GResult(g, b, tb, "ExchangeUnavailable")
        ELSE IF rm.err # NoErr THEN GResult(g, b, tb, "RackMismatch")
        ELSE IF ad.err # NoErr
        THEN GResult([g EXCEPT !.Players[who] = rm.player], b, dr.bag, "RackOverflow")
        ELSE GResult(Advance(g1, dr.bag, who), b, dr.bag, NoErr)

\* a Pass
Pass(g, b, tb, who) ==
    IF TurnError(g, who) # NoErr THEN GResult(g, b, tb, TurnError(g, who))
    ELSE GResult(Advance([g EXCEPT !.NonScoring[who] = g.NonScoring[who] + 1], tb, who),
                 b, tb, NoErr)

(***************************************************************************)
(* State                                                                   *)
(***************************************************************************)
VARIABLES
    board,   \* the Board of the game
    ret,     \* the last board call: operation, arguments, error, value
    pin,     \* the input of a Position conversion
    pout,    \* the last Position conversion and its result
    player,  \* the Player
    pret,    \* the last player call: operation, arguments, error, value
    bag,     \* the TileBag
    bret,    \* the last tile bag call: operation, arguments, value
    held,    \* per caller, the tiles drawn from the bag and not returned to it
    foreign, \* the tiles returned to the bag that were never drawn from it
    calls,   \* the number of DrawTiles and ReturnTiles calls made
    procs,   \* per goroutine calling the bag concurrently, its position and locals
    workers, \* per goroutine calling the player concurrently, its position and locals
    created, \* the players NewPlayer has made, each with the id it was given
    game,    \* the Game: players, current turn, state and move history
    gret     \* the last call on the game: operation, player, error

boardVars == << board, ret >>

posVars == << pin, pout >>

playerVars == << player, pret, workers >>

bagVars == << bag, bret, held, foreign, calls, procs >>

gameVars == << created, game, gret >>

vars ==
    << board, ret, pin, pout, player, pret, bag, bret, held, foreign, calls, procs,
       workers, created, game, gret >>

(***************************************************************************)
(* Inputs the operations are called with                                   *)
(***************************************************************************)
\* positions inside the grid (centre, corners, an edge, inner squares) and outside it
ProbeOrder ==
    << Pos(7, 7), Pos(-1, 0), Pos(0, 0), Pos(7, 15), Pos(14, 14), Pos(7, 8),
       Pos(5, 5), Pos(15, -1), Pos(0, 14), Pos(3, 0) >>

Probes == {ProbeOrder[i] : i \in 1..NumProbes}

TileOrder ==
    << Tile(Ord("A"), 1, FALSE), Tile(0, 0, TRUE), Tile(Ord("Q"), 10, FALSE),
       Tile(Ord("E"), 1, FALSE) >>

Tiles == {TileOrder[i] : i \in 1..NumTiles}

\* characters of labels, of near misses around them, and a space
InputChars ==
    {" ", "/", "0", "1", "5", "6", "9", ":", "?", "@", "A", "O", "P", "h", "X"}

InputStrings == UNION {[1..n -> InputChars] : n \in 0..MaxStrLen}

\* the grid and the ring of positions around it
InputPositions == {Pos(r, c) : r \in -1..BoardSize, c \in -1..BoardSize}

Call(op, pos, tile, err, out) ==
    [op |-> op, pos |-> pos, tile |-> tile, err |-> err, out |-> out]

NoPos == Pos(0, 0)

PosIdle == [kind |-> "none", s |-> << >>, p |-> NoPos]

PosNone == [op |-> "none", label |-> << >>, r |-> PosError(NoErr)]

\* tile values held in racks: a letter tile and a blank
RackTiles == {Tile(Ord("A"), 1, FALSE), Tile(0, 0, TRUE)}

TileLists == UNION {[1..n -> RackTiles] : n \in 0..MaxBatch}

\* rack indices: before the rack, its first, its last, and past its end
IndexProbes(p) == {-1, 0, Len(p.Rack) - 1, Len(p.Rack)}

IndexLists(p) == UNION {[1..n -> IndexProbes(p)] : n \in 0..MaxBatch}

PCall(op, tiles, indices, err, out) ==
    [op |-> op, tiles |-> tiles, indices |-> indices, err |-> err, out |-> out]

\* no board constructed: a player exists without one
NoBoard == [Center |-> NoPos, Grid |-> << >>]

\* tile counts asked of DrawTiles: a rack, more than the bag ever holds, none,
\* a negative count, one tile, the whole bag, two tiles
CountOrder == << 7, 101, 0, -1, 1, 100, 2 >>

DrawCounts == {CountOrder[i] : i \in 1..NumCounts}

RandSources == 1..NumSources

Procs == 1..NumProcs

\* the goroutine that constructed the bag, the caller when calls follow one another
Main == CHOOSE p \in Procs : \A q \in Procs : p <= q

\* a tile that no bag holds: an A worth two points
OutsideTiles == << Tile(Ord("A"), 2, FALSE) >>

BCall(op, count, tiles, out) ==
    [op |-> op, count |-> count, tiles |-> tiles, out |-> out]

\* a goroutine that is not calling the bag
ProcIdle ==
    [pc |-> "idle", op |-> "none", count |-> 0, tiles |-> << >>, own |-> FALSE,
     src |-> 0, available |-> 0, drawn |-> << >>]

\* no bag constructed
NoBag == TileBag(<< >>, Unlocked)

BagIdle ==
    /\ bag = NoBag
    /\ bret = BCall("none", 0, << >>, << >>)
    /\ held = [p \in Procs |-> << >>]
    /\ foreign = << >>
    /\ calls = 0
    /\ procs = [p \in Procs |-> ProcIdle]

GCall(op, who, err) == [op |-> op, who |-> who, err |-> err]

\* no game created
NoGame == [State |-> "none", Players |-> << >>, CurrentTurn |-> 0, History |-> << >>]

GameIdle ==
    /\ created = << >>
    /\ game = NoGame
    /\ gret = GCall("none", 0, NoErr)

\* a goroutine that is not calling the player; added is the sum of the
\* amounts of the AddScore calls it has returned from
WorkerIdle ==
    [pc |-> "idle", op |-> "none", points |-> 0, active |-> TRUE, tmp |-> 0,
     out |-> 0, added |-> 0]

\* amounts AddScore is called with
ScoreAmounts == {1, 5}

\* the rack of the player the goroutines of the test call
initialTiles ==
    << Tile(Ord("A"), 1, FALSE), Tile(Ord("B"), 3, FALSE), Tile(Ord("C"), 3, FALSE) >>

PlayerInit ==
    /\ player = NewPlayer("p1", "Alice")
    /\ pret = PCall("NewPlayer", << >>, << >>, NoErr, << >>)
    /\ workers = [p \in Procs |-> WorkerIdle]

(***************************************************************************)
(* The board operations                                                    *)
(***************************************************************************)
BoardInit ==
    /\ board = NewBoard
    /\ ret = Call("NewBoard", NoPos, Nil, NoErr, Nil)

DoPlaceTile ==
    \E tile \in Tiles, pos \in Probes :
        LET r == PlaceTile(board, tile, pos) IN
        /\ board' = r.board
        /\ ret' = Call("PlaceTile", pos, Ptr(tile), r.err, r.out)
        /\ UNCHANGED << posVars, gameVars, playerVars, bagVars >>

DoRemoveTile ==
    \E pos \in Probes :
        LET r == RemoveTile(board, pos) IN
        /\ board' = r.board
        /\ ret' = Call("RemoveTile", pos, Nil, r.err, r.out)
        /\ UNCHANGED << posVars, gameVars, playerVars, bagVars >>

\* a call that only inspects the board
Inspect(op, pos, out) ==
    /\ ret' = Call(op, pos, Nil, NoErr, out)
    /\ UNCHANGED << board, posVars, gameVars, playerVars, bagVars >>

DoGetTile == \E pos \in Probes : Inspect("GetTile", pos, GetTile(board, pos))

DoGetSquare == \E pos \in Probes : Inspect("GetSquare", pos, GetSquare(board, pos))

DoIsEmpty == \E pos \in Probes : Inspect("IsEmpty", pos, IsEmpty(board, pos))

DoHasTileAt == \E pos \in Probes : Inspect("HasTileAt", pos, HasTileAt(board, pos))

DoGetAdjacentPositions ==
    \E pos \in Probes :
        Inspect("GetAdjacentPositions", pos, GetAdjacentPositions(board, pos))

DoGetPremiumType ==
    \E pos \in Probes : Inspect("GetPremiumType", pos, GetPremiumType(board, pos))

DoValidateBoard ==
    /\ ret' = Call("ValidateBoard", NoPos, Nil, ValidateBoard(board), Nil)
    /\ UNCHANGED << board, posVars, gameVars, playerVars, bagVars >>

DoIsFirstMove == Inspect("IsFirstMove", NoPos, IsFirstMove(board))

DoGetOccupiedPositions ==
    Inspect("GetOccupiedPositions", NoPos, GetOccupiedPositions(board))

Init ==
    /\ BoardInit
    /\ pin = PosIdle
    /\ pout = PosNone
    /\ GameIdle
    /\ PlayerInit
    /\ BagIdle

Next ==
    \/ DoPlaceTile
    \/ DoRemoveTile
    \/ DoGetTile
    \/ DoGetSquare
    \/ DoIsEmpty
    \/ DoHasTileAt
    \/ DoGetAdjacentPositions
    \/ DoGetPremiumType
    \/ DoValidateBoard
    \/ DoIsFirstMove
    \/ DoGetOccupiedPositions

Spec == Init /\ [][Next]_vars

(***************************************************************************)
(* The Position conversions, applied to one input                          *)
(***************************************************************************)
PosInit ==
    /\ BoardInit
    /\ pin \in {[kind |-> "string", s |-> str, p |-> NoPos] : str \in InputStrings}
               \cup {[kind |-> "position", s |-> << >>, p |-> p] : p \in InputPositions}
    /\ pout = PosNone
    /\ GameIdle
    /\ PlayerInit
    /\ BagIdle

CallNewPositionFromString ==
    /\ pin.kind = "string"
    /\ pout.op = "none"
    /\ pout' = [op |-> "NewPositionFromString", label |-> pin.s,
                r |-> NewPositionFromString(pin.s)]
    /\ UNCHANGED << board, ret, pin, gameVars, playerVars, bagVars >>

CallString ==
    /\ pin.kind = "position"
    /\ pout.op = "none"
    /\ pout' = [op |-> "String", label |-> String(pin.p), r |-> PosError(NoErr)]
    /\ UNCHANGED << board, ret, pin, gameVars, playerVars, bagVars >>

\* the label String returned, handed to NewPositionFromString
CallParseLabel ==
    /\ pout.op = "String"
    /\ pout' = [op |-> "ParseLabel", label |-> pout.label,
                r |-> NewPositionFromString(pout.label)]
    /\ UNCHANGED << board, ret, pin, gameVars, playerVars, bagVars >>

PosNext ==
    \/ CallNewPositionFromString
    \/ CallString
    \/ CallParseLabel

PosSpec == PosInit /\ [][PosNext]_vars

(***************************************************************************)
(* The rack operations of one player, called one after the other           *)
(***************************************************************************)
RackInit ==
    /\ board = NoBoard
    /\ ret = Call("none", NoPos, Nil, NoErr, Nil)
    /\ pin = PosIdle
    /\ pout = PosNone
    /\ GameIdle
    /\ PlayerInit
    /\ BagIdle

DoAddTilesToRack ==
    \E tiles \in TileLists :
        LET r == AddTilesToRack(player, tiles) IN
        /\ player' = r.player
        /\ pret' = PCall("AddTilesToRack", tiles, << >>, r.err, r.out)
        /\ UNCHANGED << boardVars, posVars, gameVars, bagVars, workers >>

DoRemoveTilesFromRack ==
    \E indices \in IndexLists(player) :
        LET r == RemoveTilesFromRack(player, indices) IN
        /\ player' = r.player
        /\ pret' = PCall("RemoveTilesFromRack", << >>, indices, r.err, r.out)
        /\ UNCHANGED << boardVars, posVars, gameVars, bagVars, workers >>

DoRemoveTilesByValue ==
    \E tiles \in TileLists :
        LET r == RemoveTilesByValue(player, tiles) IN
        /\ player' = r.player
        /\ pret' = PCall("RemoveTilesByValue", tiles, << >>, r.err, r.out)
        /\ UNCHANGED << boardVars, posVars, gameVars, bagVars, workers >>

DoClearRack ==
    LET r == ClearRack(player) IN
    /\ player' = r.player
    /\ pret' = PCall("ClearRack", << >>, << >>, r.err, r.out)
    /\ UNCHANGED << boardVars, posVars, gameVars, bagVars, workers >>

DoGetRackSize ==
    /\ pret' = PCall("GetRackSize", << >>, << >>, NoErr, GetRackSize(player))
    /\ UNCHANGED << boardVars, posVars, gameVars, player, bagVars, workers >>

DoIsRackFull ==
    /\ pret' = PCall("IsRackFull", << >>, << >>, NoErr, IsRackFull(player))
    /\ UNCHANGED << boardVars, posVars, gameVars, player, bagVars, workers >>

DoIsRackEmpty ==
    /\ pret' = PCall("IsRackEmpty", << >>, << >>, NoErr, IsRackEmpty(player))
    /\ UNCHANGED << boardVars, posVars, gameVars, player, bagVars, workers >>

DoHasTile ==
    \E tile \in RackTiles :
        /\ pret' = PCall("HasTile", << tile >>, << >>, NoErr, HasTile(player, tile))
        /\ UNCHANGED << boardVars, posVars, gameVars, player, bagVars, workers >>

DoHasTiles ==
    \E tiles \in TileLists :
        /\ pret' = PCall("HasTiles", tiles, << >>, NoErr, HasTiles(player, tiles))
        /\ UNCHANGED << boardVars, posVars, gameVars, player, bagVars, workers >>

RackNext ==
    \/ DoAddTilesToRack
    \/ DoRemoveTilesFromRack
    \/ DoRemoveTilesByValue
    \/ DoClearRack
    \/ DoGetRackSize
    \/ DoIsRackFull
    \/ DoIsRackEmpty
    \/ DoHasTile
    \/ DoHasTiles

RackSpec == RackInit /\ [][RackNext]_vars

(***************************************************************************)
(* The operations of one TileBag, called one after the other                *)
(***************************************************************************)
BagInit ==
    /\ board = NoBoard
    /\ ret = Call("none", NoPos, Nil, NoErr, Nil)
    /\ pin = PosIdle
    /\ pout = PosNone
    /\ GameIdle
    /\ PlayerInit
    /\ \E src \in RandSources : bag = NewTileBag(src)
    /\ bret = BCall("NewTileBag", 0, << >>, << >>)
    /\ held = [p \in Procs |-> << >>]
    /\ foreign = << >>
    /\ calls = 0
    /\ procs = [p \in Procs |-> ProcIdle]

DoDrawTiles ==
    \E count \in DrawCounts :
        LET r == DrawTiles(bag, count) IN
        /\ calls < MaxCalls
        /\ bag' = r.bag
        /\ bret' = BCall("DrawTiles", count, << >>, r.out)
        /\ held' = [held EXCEPT ![Main] = held[Main] \o r.out]
        /\ calls' = calls + 1
        /\ UNCHANGED << boardVars, posVars, gameVars, playerVars, foreign, procs >>

\* the caller returns all the tiles it holds
DoReturnTiles ==
    \E src \in RandSources :
        LET r == ReturnTiles(bag, held[Main], src) IN
        /\ calls < MaxCalls
        /\ bag' = r.bag
        /\ bret' = BCall("ReturnTiles", 0, held[Main], r.out)
        /\ held' = [held EXCEPT ![Main] = << >>]
        /\ calls' = calls + 1
        /\ UNCHANGED << boardVars, posVars, gameVars, playerVars, foreign, procs >>

\* the caller returns tiles that never came from the bag
DoReturnOutsideTiles ==
    \E src \in RandSources :
        LET r == ReturnTiles(bag, OutsideTiles, src) IN
        /\ calls < MaxCalls
        /\ bag' = r.bag
        /\ bret' = BCall("ReturnTiles", 0, OutsideTiles, r.out)
        /\ foreign' = foreign \o OutsideTiles
        /\ calls' = calls + 1
        /\ UNCHANGED << boardVars, posVars, gameVars, playerVars, held, procs >>

DoRemainingCount ==
    /\ bret' = BCall("RemainingCount", 0, << >>, RemainingCount(bag))
    /\ UNCHANGED << boardVars, posVars, gameVars, playerVars, bag, held, foreign, calls, procs >>

DoBagIsEmpty ==
    /\ bret' = BCall("IsEmpty", 0, << >>, BagIsEmpty(bag))
    /\ UNCHANGED << boardVars, posVars, gameVars, playerVars, bag, held, foreign, calls, procs >>

BagNext ==
    \/ DoDrawTiles
    \/ DoReturnTiles
    \/ DoReturnOutsideTiles
    \/ DoRemainingCount
    \/ DoBagIsEmpty

BagSpec == BagInit /\ [][BagNext]_vars

(***************************************************************************)
(* Goroutines calling DrawTiles and ReturnTiles on one TileBag at the same *)
(* time: a call is the steps of its body, between Lock and Unlock          *)
(***************************************************************************)
BagConcInit == BagInit

\* each goroutine has its own arguments, as the goroutines of the tests pick
\* their operation by their index: the count it asks of DrawTiles
ProcCount(p) == CountOrder[p]

\* the random source when goroutine p shuffles
ProcSource(p) == 1 + (p % NumSources)

\* go bag.DrawTiles(count)
CallDrawTiles(p) ==
    /\ procs[p].pc = "idle"
    /\ calls < MaxCalls
    /\ procs' = [procs EXCEPT ![p] =
                     [ProcIdle EXCEPT !.pc = "lock", !.op = "DrawTiles",
                                      !.count = ProcCount(p)]]
    /\ calls' = calls + 1
    /\ UNCHANGED << boardVars, posVars, gameVars, playerVars, bag, bret, held, foreign >>

\* go bag.ReturnTiles(tiles) with the tiles the goroutine holds, or with
\* tiles that never came from the bag
CallReturnTiles(p) ==
    \E own \in BOOLEAN :
        /\ procs[p].pc = "idle"
        /\ calls < MaxCalls
        /\ procs' = [procs EXCEPT ![p] =
                         [ProcIdle EXCEPT !.pc = "lock", !.op = "ReturnTiles",
                                          !.tiles = IF own THEN held[p] ELSE OutsideTiles,
                                          !.own = own, !.src = ProcSource(p)]]
        /\ calls' = calls + 1
        /\ UNCHANGED << boardVars, posVars, gameVars, playerVars, bag, bret, held, foreign >>

\* tb.mu.Lock()
Lock(p) ==
    /\ procs[p].pc = "lock"
    /\ CanLock(bag)
    /\ bag' = [bag EXCEPT !.mu = p]
    /\ procs' = [procs EXCEPT ![p].pc =
                     IF procs[p].op = "DrawTiles" THEN "copy" ELSE "append"]
    /\ UNCHANGED << boardVars, posVars, gameVars, playerVars, bret, held, foreign, calls >>

\* DrawTiles from the test of count to copy(drawn, tb.tiles[available-count:])
DrawCopy(p) ==
    /\ procs[p].pc = "copy"
    /\ procs' = [procs EXCEPT ![p] =
           IF procs[p].count <= 0
           THEN [procs[p] EXCEPT !.pc = "unlock"]
           ELSE LET available == Len(bag.tiles)
                    count == IF procs[p].count > available THEN available
                             ELSE procs[p].count
                IN  [procs[p] EXCEPT !.pc = "truncate", !.available = available,
                                     !.count = count,
                                     !.drawn = SubSeq(bag.tiles, available - count + 1,
                                                      available)]]
    /\ UNCHANGED << boardVars, posVars, gameVars, playerVars, bag, bret, held, foreign, calls >>

\* tb.tiles = tb.tiles[:available-count]
DrawTruncate(p) ==
    /\ procs[p].pc = "truncate"
    /\ bag' = [bag EXCEPT !.tiles =
                   SubSeq(bag.tiles, 1, procs[p].available - procs[p].count)]
    /\ procs' = [procs EXCEPT ![p].pc = "unlock"]
    /\ UNCHANGED << boardVars, posVars, gameVars, playerVars, bret, held, foreign, calls >>

\* tb.tiles = append(tb.tiles, tiles...): the tiles are in the bag and no
\* longer with the caller
ReturnAppend(p) ==
    /\ procs[p].pc = "append"
    /\ bag' = [bag EXCEPT !.tiles = bag.tiles \o procs[p].tiles]
    /\ held' = IF procs[p].own THEN [held EXCEPT ![p] = << >>] ELSE held
    /\ foreign' = IF procs[p].own THEN foreign ELSE foreign \o procs[p].tiles
    /\ procs' = [procs EXCEPT ![p].pc = "shuffle"]
    /\ UNCHANGED << boardVars, posVars, gameVars, playerVars, bret, calls >>

\* tb.shuffle()
ReturnShuffle(p) ==
    /\ procs[p].pc = "shuffle"
    /\ bag' = [bag EXCEPT !.tiles = shuffle(bag.tiles, procs[p].src)]
    /\ procs' = [procs EXCEPT ![p].pc = "unlock"]
    /\ UNCHANGED << boardVars, posVars, gameVars, playerVars, bret, held, foreign, calls >>

\* the deferred tb.mu.Unlock() and the return: the caller has the drawn tiles
Unlock(p) ==
    /\ procs[p].pc = "unlock"
    /\ bag' = [bag EXCEPT !.mu = Unlocked]
    /\ held' = [held EXCEPT ![p] = held[p] \o procs[p].drawn]
    /\ procs' = [procs EXCEPT ![p] = ProcIdle]
    /\ UNCHANGED << boardVars, posVars, gameVars, playerVars, bret, foreign, calls >>

BagConcNext ==
    \E p \in Procs :
        \/ CallDrawTiles(p)
        \/ CallReturnTiles(p)
        \/ Lock(p)
        \/ DrawCopy(p)
        \/ DrawTruncate(p)
        \/ ReturnAppend(p)
        \/ ReturnShuffle(p)
        \/ Unlock(p)

BagConcSpec == BagConcInit /\ [][BagConcNext]_vars

(***************************************************************************)
(* Tiles on their way from the bag to a rack, to the board and back: the   *)
(* caller hands the tiles one operation returns to the next                *)
(***************************************************************************)
FlowInit ==
    /\ BoardInit
    /\ pin = PosIdle
    /\ pout = PosNone
    /\ GameIdle
    /\ PlayerInit
    /\ \E src \in RandSources : bag = NewTileBag(src)
    /\ bret = BCall("NewTileBag", 0, << >>, << >>)
    /\ held = [p \in Procs |-> << >>]
    /\ foreign = << >>
    /\ calls = 0
    /\ procs = [p \in Procs |-> ProcIdle]

\* the caller hands on r.out and what it held before
Moved(tiles) ==
    /\ calls < MaxMoves
    /\ calls' = calls + 1
    /\ held' = [held EXCEPT ![Main] = tiles]
    /\ UNCHANGED << ret, posVars, gameVars, pret, bret, foreign, procs, workers >>

\* the rack is refilled from the bag: the tiles drawn are with the caller
FlowDrawTiles ==
    LET r == DrawTiles(bag, MaxRackSize - GetRackSize(player)) IN
    /\ held[Main] = << >>
    /\ bag' = r.bag
    /\ Moved(r.out)
    /\ UNCHANGED << board, player >>

FlowAddTilesToRack ==
    LET r == AddTilesToRack(player, held[Main]) IN
    /\ held[Main] # << >>
    /\ player' = r.player
    /\ Moved(IF r.err = NoErr THEN << >> ELSE held[Main])
    /\ UNCHANGED << board, bag >>

\* the first or the last tile of the rack is taken
FlowRemoveTilesFromRack ==
    \E index \in {0, GetRackSize(player) - 1} :
        LET r == RemoveTilesFromRack(player, << index >>) IN
        /\ player' = r.player
        /\ Moved(held[Main] \o r.out)
        /\ UNCHANGED << board, bag >>

FlowRemoveTilesByValue ==
    \E tile \in RackTiles :
        LET r == RemoveTilesByValue(player, << tile >>) IN
        /\ player' = r.player
        /\ Moved(IF r.err = NoErr THEN held[Main] \o << tile >> ELSE held[Main])
        /\ UNCHANGED << board, bag >>

FlowClearRack ==
    LET r == ClearRack(player) IN
    /\ player' = r.player
    /\ Moved(held[Main] \o r.out)
    /\ UNCHANGED << board, bag >>

\* the first tile the caller holds is played
FlowPlaceTile ==
    \E pos \in Probes :
        LET r == PlaceTile(board, Head(held[Main]), pos) IN
        /\ held[Main] # << >>
        /\ board' = r.board
        /\ Moved(IF r.err = NoErr THEN Tail(held[Main]) ELSE held[Main])
        /\ UNCHANGED << player, bag >>

FlowRemoveTile ==
    \E pos \in Probes :
        LET r == RemoveTile(board, pos) IN
        /\ board' = r.board
        /\ Moved(IF r.out = Nil THEN held[Main] ELSE held[Main] \o r.out)
        /\ UNCHANGED << player, bag >>

FlowReturnTiles ==
    \E src \in RandSources :
        LET r == ReturnTiles(bag, held[Main], src) IN
        /\ held[Main] # << >>
        /\ bag' = r.bag
        /\ Moved(<< >>)
        /\ UNCHANGED << board, player >>

FlowNext ==
    \/ FlowDrawTiles
    \/ FlowAddTilesToRack
    \/ FlowRemoveTilesFromRack
    \/ FlowRemoveTilesByValue
    \/ FlowClearRack
    \/ FlowPlaceTile
    \/ FlowRemoveTile
    \/ FlowReturnTiles

FlowSpec == FlowInit /\ [][FlowNext]_vars

(***************************************************************************)
(* Goroutines calling AddScore, GetScore and SetActive on one Player at    *)
(* the same time: a call is the steps of its body, between Lock and Unlock *)
(* or RLock and RUnlock.  p.Score += points is a load and a store.  RLock  *)
(* is not held back by a goroutine waiting in Lock.                        *)
(***************************************************************************)
ScoreInit ==
    /\ board = NoBoard
    /\ ret = Call("none", NoPos, Nil, NoErr, Nil)
    /\ pin = PosIdle
    /\ pout = PosNone
    /\ GameIdle
    /\ player = AddTilesToRack(NewPlayer("concurrent", "ConcurrentPlayer"),
                               initialTiles).player
    /\ pret = PCall("AddTilesToRack", initialTiles, << >>, NoErr, << >>)
    /\ workers = [p \in Procs |-> WorkerIdle]
    /\ BagIdle

\* the goroutine calls the player: the call waits at pc for the mutex
Called(p, pc, op, points, active) ==
    /\ workers[p].pc = "idle"
    /\ calls < MaxCalls
    /\ calls' = calls + 1
    /\ workers' = [workers EXCEPT ![p] =
                       [workers[p] EXCEPT !.pc = pc, !.op = op, !.points = points,
                                          !.active = active]]
    /\ UNCHANGED << boardVars, posVars, gameVars, player, pret, bag, bret, held, foreign, procs >>

\* go player.AddScore(points)
CallAddScore(p) == \E points \in ScoreAmounts : Called(p, "lock", "AddScore", points, TRUE)

\* go player.GetScore()
CallGetScore(p) == Called(p, "rlock", "GetScore", 0, TRUE)

\* go player.SetActive(active)
CallSetActive(p) == \E active \in BOOLEAN : Called(p, "lock", "SetActive", 0, active)

\* a step of a call in progress
Step(p, pc, nextPlayer, nextWorker) ==
    /\ workers[p].pc = pc
    /\ player' = nextPlayer
    /\ workers' = [workers EXCEPT ![p] = nextWorker]
    /\ UNCHANGED << boardVars, posVars, gameVars, pret, bagVars >>

\* p.mu.Lock()
PlayerLock(p) ==
    /\ CanWLock(player.mu)
    /\ Step(p, "lock", [player EXCEPT !.mu.writer = p],
            [workers[p] EXCEPT !.pc = IF workers[p].op = "AddScore" THEN "load" ELSE "set"])

\* p.mu.RLock()
PlayerRLock(p) ==
    /\ CanRLock(player.mu)
    /\ Step(p, "rlock", [player EXCEPT !.mu.readers = player.mu.readers \cup {p}],
            [workers[p] EXCEPT !.pc = "read"])

\* p.Score += points: the load of p.Score
AddScoreLoad(p) ==
    Step(p, "load", player, [workers[p] EXCEPT !.pc = "store", !.tmp = GetScore(player)])

\* p.Score += points: the store of the sum
AddScoreStore(p) ==
    Step(p, "store", SetScore(player, workers[p].tmp + workers[p].points),
         [workers[p] EXCEPT !.pc = "unlock"])

\* p.IsActive = active
SetActiveStore(p) ==
    Step(p, "set", SetActive(player, workers[p].active), [workers[p] EXCEPT !.pc = "unlock"])

\* return p.Score
GetScoreRead(p) ==
    Step(p, "read", player, [workers[p] EXCEPT !.pc = "runlock", !.out = GetScore(player)])

\* the deferred p.mu.Unlock() and the return
PlayerUnlock(p) ==
    Step(p, "unlock", [player EXCEPT !.mu.writer = 0],
         [WorkerIdle EXCEPT !.added = workers[p].added + workers[p].points])

\* the deferred p.mu.RUnlock() and the return
PlayerRUnlock(p) ==
    Step(p, "runlock", [player EXCEPT !.mu.readers = player.mu.readers \ {p}],
         [WorkerIdle EXCEPT !.added = workers[p].added])

ScoreNext ==
    \E p \in Procs :
        \/ CallAddScore(p)
        \/ CallGetScore(p)
        \/ CallSetActive(p)
        \/ PlayerLock(p)
        \/ PlayerRLock(p)
        \/ AddScoreLoad(p)
        \/ AddScoreStore(p)
        \/ SetActiveStore(p)
        \/ GetScoreRead(p)
        \/ PlayerUnlock(p)
        \/ PlayerRUnlock(p)

ScoreSpec == ScoreInit /\ [][ScoreNext]_vars

(***************************************************************************)
(* Goroutines calling AddTilesToRack, GetRackSize, HasTile and             *)
(* RemoveTilesFromRack on one Player at the same time, as the goroutines   *)
(* of TestConcurrentRackModification do: a call is the steps of its body,  *)
(* between Lock and Unlock or RLock and RUnlock.                           *)
(***************************************************************************)
\* a goroutine that is not calling the player: size is what its last
\* GetRackSize returned, before the rack its call found when it took the
\* mutex, added and removed the tiles its returned calls added and removed
RackerIdle ==
    [pc |-> "idle", op |-> "none", tiles |-> << >>, indices |-> << >>, size |-> 0,
     before |-> << >>, err |-> NoErr, out |-> << >>, has |-> FALSE,
     added |-> << >>, removed |-> << >>]

\* the racks the goroutines find: the new player's and racks filled before
StartRacks == { Repeat(Tile(Ord("Z"), 10, FALSE), n) : n \in {0, 1, MaxRackSize - 1} }

\* tiles := []Tile{{Letter: rune('A' + id), Points: 1, IsBlank: false}}
RackerTiles(p) == << Tile(Ord("A") + (p - 1), 1, FALSE) >>

RackConcInit ==
    /\ board = NoBoard
    /\ ret = Call("none", NoPos, Nil, NoErr, Nil)
    /\ pin = PosIdle
    /\ pout = PosNone
    /\ GameIdle
    /\ \E start \in StartRacks :
           /\ player = AddTilesToRack(NewPlayer("rackmod", "RackModPlayer"), start).player
           /\ pret = PCall("AddTilesToRack", start, << >>, NoErr, << >>)
    /\ workers = [p \in Procs |-> RackerIdle]
    /\ BagIdle

\* the goroutine calls the player: the call waits at pc for the mutex
RackCalled(p, pc, op, tiles, indices) ==
    /\ workers[p].pc = "idle"
    /\ calls < MaxRackCalls
    /\ calls' = calls + 1
    /\ workers' = [workers EXCEPT ![p] =
                       [workers[p] EXCEPT !.pc = pc, !.op = op, !.tiles = tiles,
                                          !.indices = indices, !.err = NoErr,
                                          !.out = << >>]]
    /\ UNCHANGED << boardVars, posVars, gameVars, player, pret, bag, bret, held, foreign, procs >>

\* player.AddTilesToRack(tiles)
CallAddTilesToRack(p) == RackCalled(p, "lock", "AddTilesToRack", RackerTiles(p), << >>)

\* player.GetRackSize()
CallGetRackSize(p) == RackCalled(p, "rlock", "GetRackSize", << >>, << >>)

\* player.HasTile(tiles[0])
CallHasTile(p) == RackCalled(p, "rlock", "HasTile", RackerTiles(p), << >>)

\* if player.GetRackSize() > 0 { player.RemoveTilesFromRack([]int{0}) }: the
\* index is one of the rack the goroutine saw, its first or its last
CallRemoveTilesFromRack(p) ==
    /\ workers[p].size > 0
    /\ \E index \in {0, workers[p].size - 1} :
           RackCalled(p, "lock", "RemoveTilesFromRack", << >>, << index >>)

\* p.mu.Lock()
RackLock(p) ==
    /\ CanWLock(player.mu)
    /\ Step(p, "lock", [player EXCEPT !.mu.writer = p],
            [workers[p] EXCEPT !.pc = IF workers[p].op = "AddTilesToRack"
                                      THEN "capacity" ELSE "validate",
                               !.before = player.Rack])

\* p.mu.RLock()
RackRLock(p) ==
    /\ CanRLock(player.mu)
    /\ Step(p, "rlock", [player EXCEPT !.mu.readers = player.mu.readers \cup {p}],
            [workers[p] EXCEPT !.pc = "read"])

\* if len(p.Rack)+len(tiles) > MaxRackSize { return fmt.Errorf(...) }
AddCapacity(p) ==
    Step(p, "capacity", player,
         IF Len(player.Rack) + Len(workers[p].tiles) > MaxRackSize
         THEN [workers[p] EXCEPT !.pc = "unlock", !.err = "would exceed rack capacity"]
         ELSE [workers[p] EXCEPT !.pc = "append"])

\* p.Rack = append(p.Rack, tiles...)
AddAppend(p) ==
    Step(p, "append", [player EXCEPT !.Rack = player.Rack \o workers[p].tiles],
         [workers[p] EXCEPT !.pc = "unlock"])

\* the two loops over indices: an index outside the rack, then a duplicate
RemoveValidate(p) ==
    LET indices == workers[p].indices IN
    Step(p, "validate", player,
         IF \E i \in 1..Len(indices) : indices[i] < 0 \/ indices[i] >= Len(player.Rack)
         THEN [workers[p] EXCEPT !.pc = "unlock", !.err = "invalid rack index"]
         ELSE IF \E i, j \in 1..Len(indices) : i < j /\ indices[i] = indices[j]
         THEN [workers[p] EXCEPT !.pc = "unlock", !.err = "duplicate index"]
         ELSE [workers[p] EXCEPT !.pc = "extract"])

\* removedTiles[i] = p.Rack[index]: outside the rack the index panics
RemoveExtract(p) ==
    LET indices == workers[p].indices IN
    Step(p, "extract", player,
         IF \A i \in 1..Len(indices) : indices[i] < Len(player.Rack)
         THEN [workers[p] EXCEPT !.pc = "remove",
                                 !.out = [i \in 1..Len(indices) |->
                                              player.Rack[indices[i] + 1]]]
         ELSE [workers[p] EXCEPT !.pc = "unlock", !.err = "panic"])

\* p.Rack = append(p.Rack[:index], p.Rack[index+1:]...), back to front
RemoveLoop(p) ==
    LET indices == workers[p].indices IN
    Step(p, "remove",
         IF \A i \in 1..Len(indices) : indices[i] < Len(player.Rack)
         THEN [player EXCEPT !.Rack = RemoveEach(player.Rack, SortDescending(indices))]
         ELSE player,
         IF \A i \in 1..Len(indices) : indices[i] < Len(player.Rack)
         THEN [workers[p] EXCEPT !.pc = "unlock"]
         ELSE [workers[p] EXCEPT !.pc = "unlock", !.err = "panic"])

\* return len(p.Rack), or the loop of HasTile over p.Rack
RackRead(p) ==
    Step(p, "read", player,
         IF workers[p].op = "GetRackSize"
         THEN [workers[p] EXCEPT !.pc = "runlock", !.size = GetRackSize(player)]
         ELSE [workers[p] EXCEPT !.pc = "runlock",
                                 !.has = HasTile(player, workers[p].tiles[1])])

\* the deferred p.mu.Unlock() and the return
RackUnlock(p) ==
    Step(p, "unlock", [player EXCEPT !.mu.writer = 0],
         [workers[p] EXCEPT
              !.pc = "idle",
              !.added = IF workers[p].op = "AddTilesToRack" /\ workers[p].err = NoErr
                        THEN workers[p].added \o workers[p].tiles
                        ELSE workers[p].added,
              !.removed = IF workers[p].op = "RemoveTilesFromRack"
                             /\ workers[p].err = NoErr
                          THEN workers[p].removed \o workers[p].out
                          ELSE workers[p].removed])

\* the deferred p.mu.RUnlock() and the return
RackRUnlock(p) ==
    Step(p, "runlock", [player EXCEPT !.mu.readers = player.mu.readers \ {p}],
         [workers[p] EXCEPT !.pc = "idle"])

RackConcNext ==
    \E p \in Procs :
        \/ CallAddTilesToRack(p)
        \/ CallGetRackSize(p)
        \/ CallHasTile(p)
        \/ CallRemoveTilesFromRack(p)
        \/ RackLock(p)
        \/ RackRLock(p)
        \/ AddCapacity(p)
        \/ AddAppend(p)
        \/ RemoveValidate(p)
        \/ RemoveExtract(p)
        \/ RemoveLoop(p)
        \/ RackRead(p)
        \/ RackUnlock(p)
        \/ RackRUnlock(p)

RackConcSpec == RackConcInit /\ [][RackConcNext]_vars

(***************************************************************************)
(* A caller reading the rack: GetRack, assignments to elements of the      *)
(* slice it returned, and GetRackValue, on racks built tile by tile        *)
(***************************************************************************)
\* tile values of the racks read: two letters and a blank
ViewTiles == {Tile(Ord("A"), 1, FALSE), Tile(Ord("B"), 3, FALSE), Tile(0, 0, TRUE)}

\* rack[0] = Tile{Letter: 'Z', Points: 10, IsBlank: false}
WrittenTile == Tile(Ord("Z"), 10, FALSE)

ViewInit ==
    /\ board = NoBoard
    /\ ret = Call("none", NoPos, Nil, NoErr, Nil)
    /\ pin = PosIdle
    /\ pout = PosNone
    /\ GameIdle
    /\ PlayerInit
    /\ BagIdle

ViewAddTilesToRack ==
    \E tile \in ViewTiles :
        LET r == AddTilesToRack(player, << tile >>) IN
        /\ player' = r.player
        /\ pret' = PCall("AddTilesToRack", << tile >>, << >>, r.err, r.out)
        /\ UNCHANGED << boardVars, posVars, gameVars, bagVars, workers >>

\* the first or the last tile of the rack is removed
ViewRemoveTilesFromRack ==
    \E index \in {0, GetRackSize(player) - 1} :
        LET r == RemoveTilesFromRack(player, << index >>) IN
        /\ player' = r.player
        /\ pret' = PCall("RemoveTilesFromRack", << >>, << index >>, r.err, r.out)
        /\ UNCHANGED << boardVars, posVars, gameVars, bagVars, workers >>

ViewGetRack ==
    /\ pret' = PCall("GetRack", << >>, << >>, NoErr, GetRack(player))
    /\ UNCHANGED << boardVars, posVars, gameVars, player, bagVars, workers >>

\* rack[index] = tile on the slice GetRack returned: the element of the
\* array the slice points into is overwritten, and the rack shows the
\* assignment when that array is the rack's
ViewWriteRack ==
    /\ pret.op \in {"GetRack", "rack[index] = tile"}
    /\ \E index \in {0, Len(pret.out.items) - 1} :
           /\ index >= 0
           /\ pret' = PCall("rack[index] = tile", << WrittenTile >>, << index >>, NoErr,
                            TileSlice(pret.out.array,
                                      [pret.out.items EXCEPT ![index + 1] = WrittenTile]))
           /\ player' = IF pret.out.array = "p.Rack"
                        THEN [player EXCEPT !.Rack[index + 1] = WrittenTile]
                        ELSE player
    /\ UNCHANGED << boardVars, posVars, gameVars, bagVars, workers >>

ViewGetRackValue ==
    /\ pret' = PCall("GetRackValue", << >>, << >>, NoErr, GetRackValue(player))
    /\ UNCHANGED << boardVars, posVars, gameVars, player, bagVars, workers >>

ViewNext ==
    \/ ViewAddTilesToRack
    \/ ViewRemoveTilesFromRack
    \/ ViewGetRack
    \/ ViewWriteRack
    \/ ViewGetRackValue

ViewSpec == ViewInit /\ [][ViewNext]_vars

(***************************************************************************)
(* A board whose exported fields a caller assigns to, as                   *)
(* TestBoardStateValidation does, between calls of PlaceTile, RemoveTile   *)
(* and ValidateBoard; calls counts the assignments                         *)
(***************************************************************************)
\* the squares the caller assigns to and plays on: the centre H8, the
\* corner A1 and the normal square I8
WriteSquares == {Pos(7, 7), Pos(0, 0), Pos(7, 8)}

\* the values Center is set to
WrittenCenters == {Pos(0, 0), Pos(7, 7)}

\* the values a Premium field is set to: two of the types and an integer
\* that is none of the five, which String() prints as UNKNOWN
WrittenPremiums == {Normal, DoubleWordScore, "UNKNOWN"}

ValidateInit ==
    /\ BoardInit
    /\ pin = PosIdle
    /\ pout = PosNone
    /\ GameIdle
    /\ PlayerInit
    /\ BagIdle

\* board.Center = Position{Row: ..., Col: ...}
SetCenter ==
    \E pos \in WrittenCenters :
        /\ calls < MaxWrites
        /\ calls' = calls + 1
        /\ board' = [board EXCEPT !.Center = pos]
        /\ ret' = Call("board.Center = pos", pos, Nil, NoErr, Nil)
        /\ UNCHANGED << posVars, gameVars, playerVars, bag, bret, held, foreign, procs >>

\* board.Grid[row][col].Premium = premium
SetPremium ==
    \E pos \in WriteSquares, premium \in WrittenPremiums :
        /\ calls < MaxWrites
        /\ calls' = calls + 1
        /\ board' = SetSquare(board, pos, [SquareAt(board, pos) EXCEPT !.Premium = premium])
        /\ ret' = Call("board.Grid[row][col].Premium = premium", pos, Nil, NoErr, Nil)
        /\ UNCHANGED << posVars, gameVars, playerVars, bag, bret, held, foreign, procs >>

ValidatePlaceTile ==
    \E pos \in WriteSquares :
        LET tile == TileOrder[1]
            r == PlaceTile(board, tile, pos) IN
        /\ board' = r.board
        /\ ret' = Call("PlaceTile", pos, Ptr(tile), r.err, r.out)
        /\ UNCHANGED << posVars, gameVars, playerVars, bagVars >>

ValidateRemoveTile ==
    \E pos \in WriteSquares :
        LET r == RemoveTile(board, pos) IN
        /\ board' = r.board
        /\ ret' = Call("RemoveTile", pos, Nil, r.err, r.out)
        /\ UNCHANGED << posVars, gameVars, playerVars, bagVars >>

ValidateNext ==
    \/ ValidatePlaceTile
    \/ ValidateRemoveTile
    \/ DoValidateBoard
    \/ SetCenter
    \/ SetPremium

ValidateSpec == ValidateInit /\ [][ValidateNext]_vars

(***************************************************************************)
(* Players made one after the other by NewPlayer                           *)
(***************************************************************************)
\* the ids NewPlayer is given: none, and two ids of the tests
InputIds == {"", "p1", "test"}

\* the names NewPlayer is given
InputNames == {"Alice", "Bob"}

CreateInit ==
    /\ board = NoBoard
    /\ ret = Call("none", NoPos, Nil, NoErr, Nil)
    /\ pin = PosIdle
    /\ pout = PosNone
    /\ GameIdle
    /\ PlayerInit
    /\ BagIdle

\* NewPlayer(id, name): the player made is kept with the id given
DoNewPlayer ==
    \E id \in InputIds, name \in InputNames :
        /\ Len(created) < MaxCreated
        /\ created' = Append(created, [id |-> id, player |-> NewPlayer(id, name)])
        /\ UNCHANGED << boardVars, posVars, playerVars, bagVars, game, gret >>

CreateNext == DoNewPlayer

CreateSpec == CreateInit /\ [][CreateNext]_vars

(***************************************************************************)
(* One game: players join, the game is started, and the players submit     *)
(* moves, exchanges and passes, in turn and out of turn                    *)
(***************************************************************************)
\* the players who ask to join, one more than a game takes
GameNames == << "Alice", "Bob", "Carol", "Dave", "Eve" >>

GameIds == << "p1", "p2", "p3", "p4", "p5" >>

\* the tiles left in the supply the game is set up on: a new bag, and a bag
\* from which all tiles but the two racks of a start have been drawn
SupplyCounts == {100, 2 * MaxRackSize}

\* the random sources a game shuffles its supply with
ShuffleSources == {1, 2}

\* the dictionary, by the lengths of the words it recognizes: every word
\* but those of three letters
Dictionary == (1..BoardSize) \ {3}

\* the letter a blank is played as
BlankLetter == Ord("E")

PlayForm(tile) == IF tile.IsBlank THEN [tile EXCEPT !.Letter = BlankLetter] ELSE tile

\* a tile no rack holds twice
StrayTile == Tile(Ord("Q"), 10, FALSE)

\* the i-th rack tile as it is played, or a tile the rack does not hold
RackTile(p, i) == IF i <= Len(p.Rack) THEN PlayForm(p.Rack[i]) ELSE StrayTile

\* the tiles in the given order on the consecutive squares of a row
AlongRow(tiles, row, col) ==
    [i \in 1..Len(tiles) |-> PlacedTile(tiles[i], Pos(row, col + i - 1))]

\* the placements a player proposes
Proposals(p) ==
    LET t1 == RackTile(p, 1)
        t2 == RackTile(p, 2)
    IN  { AlongRow(<< t1, t2 >>, 7, 7),
          AlongRow([i \in 1..Len(p.Rack) |-> RackTile(p, i)], 7, 4),
          AlongRow(<< t1 >>, 7, 7),
          AlongRow(<< t1 >>, 7, 9),
          AlongRow(<< t1, t2 >>, 8, 7),
          AlongRow(<< t1, t2 >>, 0, 0),
          AlongRow(<< t1, t1 >>, 7, 7),
          AlongRow(<< StrayTile, StrayTile >>, 7, 7),
          << PlacedTile(t1, Pos(7, 7)), PlacedTile(t2, Pos(7, 9)) >>,
          << PlacedTile(t1, Pos(7, 7)), PlacedTile(t2, Pos(8, 8)) >>,
          << PlacedTile(t1, Pos(7, 7)), PlacedTile(t2, Pos(7, 7)) >>,
          AlongRow(<< t1 >>, BoardSize, BoardSize) }

\* the rack indices a player asks to exchange
ExchangeIndices == {<< 0, 1 >>, << MaxRackSize >>}

GameInit ==
    /\ BoardInit
    /\ pin = PosIdle
    /\ pout = PosNone
    /\ PlayerInit
    /\ \E n \in SupplyCounts :
           bag = DrawTiles(NewTileBag(1), 100 - n).bag
    /\ bret = BCall("NewTileBag", 0, << >>, << >>)
    /\ held = [p \in Procs |-> << >>]
    /\ foreign = << >>
    /\ calls = 0
    /\ procs = [p \in Procs |-> ProcIdle]
    /\ created = << >>
    /\ \E src \in ShuffleSources : game = NewGame(Dictionary, src)
    /\ gret = GCall("NewGame", 0, NoErr)

GameUnchanged ==
    UNCHANGED << ret, pin, pout, player, pret, bret, held, foreign, calls,
                 procs, workers, created >>

\* the game, its board and its supply are what the call left
GameCalled(op, who, r) ==
    /\ game' = r.game
    /\ board' = r.board
    /\ bag' = r.bag
    /\ gret' = GCall(op, who, r.err)
    /\ GameUnchanged

\* the turns of a game in progress are counted up to MaxTurns
TurnsLeft == game.State # InProgress \/ game.Turns < MaxTurns

\* the players who call: the player whose turn it is and the next in rotation
Callers ==
    IF game.Players = << >> THEN {}
    ELSE {game.CurrentTurn + 1, ((game.CurrentTurn + 1) % Len(game.Players)) + 1}

DoAddPlayer ==
    /\ Len(game.Players) < Len(GameIds)
    /\ LET i == Len(game.Players) + 1 IN
       GameCalled("AddPlayer", i, AddPlayer(game, board, bag, GameIds[i], GameNames[i]))

DoStartGame == GameCalled("StartGame", 0, StartGame(game, board, bag))

\* the player whose turn it is proposes every placement; a player out of
\* turn proposes the first
Proposed(who) ==
    IF who = game.CurrentTurn + 1 THEN Proposals(game.Players[who])
    ELSE {AlongRow(<< RackTile(game.Players[who], 1), RackTile(game.Players[who], 2) >>, 7, 7)}

\* the exchanges a player asks for, in turn and out of turn
Exchanged(who) ==
    IF who = game.CurrentTurn + 1 THEN ExchangeIndices ELSE {<< 0, 1 >>}

DoSubmitMove ==
    /\ TurnsLeft
    /\ \E who \in Callers :
           \E placed \in Proposed(who) :
               GameCalled("Move", who, SubmitMove(game, board, bag, who, placed))

DoExchange ==
    /\ TurnsLeft
    /\ \E who \in Callers :
           \E indices \in Exchanged(who) :
               GameCalled("Exchange", who, Exchange(game, board, bag, who, indices))

DoPass ==
    /\ TurnsLeft
    /\ \E who \in Callers :
           GameCalled("Pass", who, Pass(game, board, bag, who))

GameNext ==
    \/ DoAddPlayer
    \/ DoStartGame
    \/ DoSubmitMove
    \/ DoExchange
    \/ DoPass

GameSpec == GameInit /\ [][GameNext]_vars

(***************************************************************************)
(* Goroutines calling the locking operations of one TileBag and one Player *)
(* at the same time: a call waits for its object's mutex, runs its body,   *)
(* and the deferred unlock releases the mutex when the body returns        *)
(***************************************************************************)
\* the goroutines that call at the same time
Lockers == {1, 2}

\* a goroutine that is in no call; via is the operation that called op
LockerIdle ==
    [pc |-> "idle", op |-> "none", via |-> "none", tiles |-> << >>,
     indices |-> << >>, count |-> 0, err |-> NoErr]

\* the rack the player starts with: one tile short of full
LockRack ==
    << Tile(Ord("A"), 1, FALSE), Tile(Ord("B"), 3, FALSE), Tile(Ord("C"), 3, FALSE),
       Tile(Ord("D"), 2, FALSE), Tile(Ord("E"), 1, FALSE), Tile(0, 0, TRUE) >>

\* the tiles the goroutines add, return and remove by value
LockTiles == << Tile(Ord("A"), 1, FALSE) >>

\* the bag the goroutines call: every tile has been drawn from it and two
\* have been returned
LockBag ==
    ReturnTiles(DrawTiles(NewTileBag(1), 100).bag, LockTiles \o LockTiles, 1).bag

LockInit ==
    /\ board = NoBoard
    /\ ret = Call("none", NoPos, Nil, NoErr, Nil)
    /\ pin = PosIdle
    /\ pout = PosNone
    /\ GameIdle
    /\ player = AddTilesToRack(NewPlayer("p1", "Alice"), LockRack).player
    /\ pret = PCall("AddTilesToRack", LockRack, << >>, NoErr, << >>)
    /\ workers = [p \in Procs |-> LockerIdle]
    /\ bag = LockBag
    /\ bret = BCall("ReturnTiles", 0, LockTiles \o LockTiles, << >>)
    /\ held = [p \in Procs |-> << >>]
    /\ foreign = << >>
    /\ calls = 0
    /\ procs = [p \in Procs |-> ProcIdle]

\* the goroutine is in a call: to the given pc, nothing else changes
LockCalled(p, next) ==
    /\ workers[p].pc = "idle"
    /\ calls < MaxLockCalls
    /\ calls' = calls + 1
    /\ workers' = [workers EXCEPT ![p] = next]
    /\ UNCHANGED << boardVars, posVars, gameVars, player, pret, bag, bret, held,
                    foreign, procs >>

\* go bag.DrawTiles(count)
GoDrawTiles(p) ==
    \E count \in {0, 1} :
        LockCalled(p, [LockerIdle EXCEPT !.pc = "tb.mu.Lock", !.op = "DrawTiles",
                                         !.count = count])

\* go bag.ReturnTiles(tiles)
GoReturnTiles(p) ==
    LockCalled(p, [LockerIdle EXCEPT !.pc = "tb.mu.Lock", !.op = "ReturnTiles",
                                     !.tiles = LockTiles])

\* go bag.RemainingCount()
GoRemainingCount(p) ==
    LockCalled(p, [LockerIdle EXCEPT !.pc = "tb.mu.Lock", !.op = "RemainingCount"])

\* go bag.IsEmpty(): it calls tb.RemainingCount() and holds no lock itself
GoIsEmpty(p) ==
    LockCalled(p, [LockerIdle EXCEPT !.pc = "tb.mu.Lock", !.op = "RemainingCount",
                                     !.via = "IsEmpty"])

\* go player.AddTilesToRack(tiles): with no tiles it returns before the Lock
GoAddTilesToRack(p) ==
    \E tiles \in {<< >>, LockTiles} :
        LockCalled(p, IF Len(tiles) = 0 THEN LockerIdle
                      ELSE [LockerIdle EXCEPT !.pc = "p.mu.Lock", !.op = "AddTilesToRack",
                                              !.tiles = tiles])

\* go player.RemoveTilesFromRack(indices): with no indices it returns before the Lock
GoRemoveTilesFromRack(p) ==
    \E indices \in {<< >>, << 0 >>, << 0, 0 >>, << MaxRackSize >>} :
        LockCalled(p, IF Len(indices) = 0 THEN LockerIdle
                      ELSE [LockerIdle EXCEPT !.pc = "p.mu.Lock",
                                              !.op = "RemoveTilesFromRack",
                                              !.indices = indices])

\* go player.RemoveTilesByValue(tiles): with no tiles it returns before the Lock
GoRemoveTilesByValue(p) ==
    \E tiles \in {<< >>, LockTiles, OutsideTiles} :
        LockCalled(p, IF Len(tiles) = 0 THEN LockerIdle
                      ELSE [LockerIdle EXCEPT !.pc = "p.mu.Lock",
                                              !.op = "RemoveTilesByValue",
                                              !.tiles = tiles])

\* go player.ValidatePlayer()
GoValidatePlayer(p) ==
    LockCalled(p, [LockerIdle EXCEPT !.pc = "p.mu.RLock", !.op = "ValidatePlayer"])

\* go player.String()
GoString(p) ==
    LockCalled(p, [LockerIdle EXCEPT !.pc = "p.mu.RLock", !.op = "String"])

\* a step of a call in progress
LockStep(p, pc, nextBag, nextPlayer, nextWorker) ==
    /\ workers[p].pc = pc
    /\ bag' = nextBag
    /\ player' = nextPlayer
    /\ workers' = [workers EXCEPT ![p] = nextWorker]
    /\ UNCHANGED << boardVars, posVars, gameVars, pret, bret, held, foreign, calls, procs >>

\* tb.mu.Lock()
BagMuLock(p) ==
    /\ CanLock(bag)
    /\ LockStep(p, "tb.mu.Lock", [bag EXCEPT !.mu = p], player,
                [workers[p] EXCEPT !.pc = "body"])

\* a goroutine waits in p.mu.Lock()
WriterWaits == \E q \in Lockers : workers[q].pc = "p.mu.Lock"

\* p.mu.Lock()
PlayerMuLock(p) ==
    /\ CanWLock(player.mu)
    /\ LockStep(p, "p.mu.Lock", bag, [player EXCEPT !.mu.writer = p],
                [workers[p] EXCEPT !.pc = "body"])

\* p.mu.RLock(): a sync.RWMutex keeps new readers out while a writer waits
PlayerMuRLock(p) ==
    /\ CanRLock(player.mu)
    /\ ~WriterWaits
    /\ LockStep(p, "p.mu.RLock",
                bag, [player EXCEPT !.mu.readers = player.mu.readers \cup {p}],
                [workers[p] EXCEPT !.pc = "body"])

\* the body of a call returns err and leaves the deferred unlock to run
Returns(p, err) == [workers[p] EXCEPT !.pc = "deferred", !.err = err]

\* the body of a bag operation
BagBody(p, op, nextBag) ==
    /\ workers[p].op = op
    /\ LockStep(p, "body", nextBag, player, Returns(p, NoErr))

\* the body of a player operation
PlayerBody(p, op, nextPlayer, err) ==
    /\ workers[p].op = op
    /\ LockStep(p, "body", bag, nextPlayer, Returns(p, err))

BodyDrawTiles(p) == BagBody(p, "DrawTiles", DrawTiles(bag, workers[p].count).bag)

BodyReturnTiles(p) ==
    BagBody(p, "ReturnTiles", ReturnTiles(bag, workers[p].tiles, ProcSource(p)).bag)

BodyRemainingCount(p) == BagBody(p, "RemainingCount", bag)

BodyAddTilesToRack(p) ==
    LET r == AddTilesToRack(player, workers[p].tiles) IN
    PlayerBody(p, "AddTilesToRack", r.player, r.err)

BodyRemoveTilesFromRack(p) ==
    LET r == RemoveTilesFromRack(player, workers[p].indices) IN
    PlayerBody(p, "RemoveTilesFromRack", r.player, r.err)

BodyRemoveTilesByValue(p) ==
    LET r == RemoveTilesByValue(player, workers[p].tiles) IN
    PlayerBody(p, "RemoveTilesByValue", r.player, r.err)

BodyValidatePlayer(p) == PlayerBody(p, "ValidatePlayer", player, ValidatePlayer(player))

BodyString(p) == PlayerBody(p, "String", player, NoErr)

\* the mutexes with what the goroutine holds of them released
Released(p) ==
    [bag |-> IF bag.mu = p THEN [bag EXCEPT !.mu = Unlocked] ELSE bag,
     player |-> [player EXCEPT !.mu.writer = IF player.mu.writer = p THEN 0
                                             ELSE player.mu.writer,
                               !.mu.readers = player.mu.readers \ {p}]]

\* the return of a call that leaves the mutex as it is
DeferredUnlockSkippedOnError(p) ==
    IF workers[p].err # NoErr
    THEN LockStep(p, "deferred", bag, player, LockerIdle)
    ELSE LockStep(p, "deferred", Released(p).bag, Released(p).player,
                  IF workers[p].via = "IsEmpty"
                  THEN [workers[p] EXCEPT !.pc = "return", !.op = "IsEmpty"]
                  ELSE LockerIdle)

\* defer tb.mu.Unlock(), defer p.mu.Unlock(), defer p.mu.RUnlock(): they run
\* on every return of the body; the call returns to its caller
DeferredUnlock(p) ==
    LockStep(p, "deferred", Released(p).bag, Released(p).player,
             IF workers[p].via = "IsEmpty"
             THEN [workers[p] EXCEPT !.pc = "return", !.op = "IsEmpty"]
             ELSE LockerIdle)

\* return tb.RemainingCount() == 0
IsEmptyReturn(p) == LockStep(p, "return", bag, player, LockerIdle)

\* the steps of the calls in progress of goroutine p
LockProgress(p) ==
    \/ BagMuLock(p)
    \/ PlayerMuLock(p)
    \/ PlayerMuRLock(p)
    \/ BodyDrawTiles(p)
    \/ BodyReturnTiles(p)
    \/ BodyRemainingCount(p)
    \/ BodyAddTilesToRack(p)
    \/ BodyRemoveTilesFromRack(p)
    \/ BodyRemoveTilesByValue(p)
    \/ BodyValidatePlayer(p)
    \/ BodyString(p)
    \/ DeferredUnlock(p)
    \/ IsEmptyReturn(p)

LockNext ==
    \E p \in Lockers :
        \/ GoDrawTiles(p)
        \/ GoReturnTiles(p)
        \/ GoRemainingCount(p)
        \/ GoIsEmpty(p)
        \/ GoAddTilesToRack(p)
        \/ GoRemoveTilesFromRack(p)
        \/ GoRemoveTilesByValue(p)
        \/ GoValidatePlayer(p)
        \/ GoString(p)
        \/ LockProgress(p)

\* the scheduler is fair: a goroutine that can take a step takes one
LockFair == \A p \in Lockers : WF_vars(LockProgress(p))

LockSpec == LockInit /\ [][LockNext]_vars /\ LockFair

(***************************************************************************)
(* The inspecting operations of a board, a player and a bag, called        *)
(* between calls that mutate them                                          *)
(***************************************************************************)
\* the last call: its operation, what it was called with, what it returned
Last(op, with, out) == [op |-> op, with |-> with, out |-> out]

\* the squares the calls are made with: two on the board, one outside
PureSquares == {Pos(7, 7), Pos(7, 8), Pos(-1, 0)}

\* the tiles the calls are made with
PureTiles == {Tile(Ord("A"), 1, FALSE), Tile(0, 0, TRUE)}

PureInit ==
    /\ board = NewBoard
    /\ ret = Last("NewBoard", << >>, << >>)
    /\ pin = PosIdle
    /\ pout = PosNone
    /\ GameIdle
    /\ PlayerInit
    /\ bag = LockBag
    /\ bret = BCall("ReturnTiles", 0, LockTiles \o LockTiles, << >>)
    /\ held = [p \in Procs |-> << >>]
    /\ foreign = << >>
    /\ calls = 0
    /\ procs = [p \in Procs |-> ProcIdle]

\* a call that mutates: the board, the player and the bag are what it left
Mutates(op, with, b, p, tb) ==
    /\ calls < MaxMutations
    /\ calls' = calls + 1
    /\ board' = b
    /\ player' = p
    /\ bag' = tb
    /\ ret' = Last(op, with, << >>)
    /\ UNCHANGED << posVars, gameVars, pret, workers, bret, held, foreign, procs >>

PurePlaceTile ==
    \E tile \in PureTiles, pos \in PureSquares :
        Mutates("PlaceTile", << tile, pos >>, PlaceTile(board, tile, pos).board, player, bag)

PureRemoveTile ==
    \E pos \in PureSquares :
        Mutates("RemoveTile", << pos >>, RemoveTile(board, pos).board, player, bag)

PureAddTilesToRack ==
    \E tile \in PureTiles :
        Mutates("AddTilesToRack", << tile >>, board,
                AddTilesToRack(player, << tile >>).player, bag)

PureRemoveTilesFromRack ==
    Mutates("RemoveTilesFromRack", << 0 >>, board,
            RemoveTilesFromRack(player, << 0 >>).player, bag)

PureSetScore ==
    \E score \in {-1, 10} :
        Mutates("SetScore", << score >>, board, SetScore(player, score), bag)

PureDrawTiles == Mutates("DrawTiles", << 1 >>, board, player, DrawTiles(bag, 1).bag)

PureReturnTiles ==
    Mutates("ReturnTiles", LockTiles, board, player, ReturnTiles(bag, LockTiles, 1).bag)

\* a call that inspects: the board, the player and the bag are what the
\* call left of them
Inspects(op, with, b, p, tb, out) ==
    /\ board' = b
    /\ player' = p
    /\ bag' = tb
    /\ ret' = Last(op, with, out)
    /\ UNCHANGED << posVars, gameVars, pret, workers, bret, held, foreign, calls, procs >>

\* an inspecting operation of the board
OnBoard(op, with, out) == Inspects(op, with, board, player, bag, out)

\* an inspecting operation of the player
OnPlayer(op, with, out) == Inspects(op, with, board, player, bag, out)

\* an inspecting operation of the bag: the mutex is unlocked again on return
OnBag(op, out) == Inspects(op, << >>, board, player, [bag EXCEPT !.mu = Unlocked], out)

PureValidateBoard == OnBoard("ValidateBoard", << >>, ValidateBoard(board))

PureGetTile == \E pos \in PureSquares : OnBoard("GetTile", << pos >>, GetTile(board, pos))

PureIsEmpty == \E pos \in PureSquares : OnBoard("IsEmpty", << pos >>, IsEmpty(board, pos))

PureHasTileAt ==
    \E pos \in PureSquares : OnBoard("HasTileAt", << pos >>, HasTileAt(board, pos))

PureIsFirstMove == OnBoard("IsFirstMove", << >>, IsFirstMove(board))

PureGetOccupiedPositions ==
    OnBoard("GetOccupiedPositions", << >>, GetOccupiedPositions(board))

PureGetAdjacentPositions ==
    \E pos \in PureSquares :
        OnBoard("GetAdjacentPositions", << pos >>, GetAdjacentPositions(board, pos))

PureHasTile ==
    \E tile \in PureTiles : OnPlayer("HasTile", << tile >>, HasTile(player, tile))

PureHasTiles ==
    \E tiles \in {<< t >> : t \in PureTiles} \cup {<< t, t >> : t \in PureTiles} :
        Inspects("HasTiles", tiles, board,
                 [player EXCEPT !.Rack = RackAfterHasTiles(player, tiles)], bag,
                 HasTiles(player, tiles))

PureGetTileCount ==
    \E tile \in PureTiles :
        OnPlayer("GetTileCount", << tile.Letter >>, GetTileCount(player, tile.Letter))

PureGetBlankCount == OnPlayer("GetBlankCount", << >>, GetBlankCount(player))

PureGetRackValue == OnPlayer("GetRackValue", << >>, GetRackValue(player))

PureValidatePlayer == OnPlayer("ValidatePlayer", << >>, ValidatePlayer(player))

PureRemainingCount == OnBag("RemainingCount", RemainingCount(bag))

PureBagIsEmpty == OnBag("IsEmpty (bag)", BagIsEmpty(bag))

PureNext ==
    \/ PurePlaceTile
    \/ PureRemoveTile
    \/ PureAddTilesToRack
    \/ PureRemoveTilesFromRack
    \/ PureSetScore
    \/ PureDrawTiles
    \/ PureReturnTiles
    \/ PureValidateBoard
    \/ PureGetTile
    \/ PureIsEmpty
    \/ PureHasTileAt
    \/ PureIsFirstMove
    \/ PureGetOccupiedPositions
    \/ PureGetAdjacentPositions
    \/ PureHasTile
    \/ PureHasTiles
    \/ PureGetTileCount
    \/ PureGetBlankCount
    \/ PureGetRackValue
    \/ PureValidatePlayer
    \/ PureRemainingCount
    \/ PureBagIsEmpty

PureSpec == PureInit /\ [][PureNext]_vars

(***************************************************************************)
(* Board claims, checked under Spec                                        *)
(***************************************************************************)
\* the positions one step and two steps outside the grid, and the grid itself
AroundGrid == {Pos(r, c) : r \in -2..(BoardSize + 1), c \in -2..(BoardSize + 1)}

InGrid(p) == 0 <= p.Row /\ p.Row < 15 /\ 0 <= p.Col /\ p.Col < 15

OutsideGrid == {p \in AroundGrid : ~InGrid(p)}

OccupiedSquares(b) == {p \in GridPositions : SquareAt(b, p).Occupied}

\* C1: the board NewBoard returns has 8 triple-word, 17 double-word, 12
\* triple-letter, 24 double-letter and 164 normal squares, its centre is row 7,
\* column 7 with label H8 and premium double-word, and ValidateBoard accepts it.
C1_NewBoardLayout ==
    ret.op = "NewBoard" =>
        /\ CountPremiumSquares(board)[TripleWordScore] = 8
        /\ CountPremiumSquares(board)[DoubleWordScore] = 17
        /\ CountPremiumSquares(board)[TripleLetterScore] = 12
        /\ CountPremiumSquares(board)[DoubleLetterScore] = 24
        /\ CountPremiumSquares(board)[Normal] = 164
        /\ board.Center = Pos(7, 7)
        /\ String(board.Center) = << "H", "8" >>
        /\ GetPremiumType(board, board.Center) = DoubleWordScore
        /\ ValidateBoard(board) = NoErr

C1_Witness ==
    /\ ret.op = "NewBoard"
    /\ OccupiedSquares(board) = {}
    /\ GetPremiumType(board, Pos(7, 7)) = DoubleWordScore
    /\ GetPremiumType(board, Pos(0, 0)) = TripleWordScore

\* C2: whatever PlaceTile and RemoveTile calls were made, successful or not,
\* every position has the premium type it had right after construction, and so
\* has Board.Center.
C2_PremiumFixed ==
    /\ \A p \in AroundGrid : GetPremiumType(board, p) = GetPremiumType(NewBoard, p)
    /\ board.Center = NewBoard.Center

C2_Witness ==
    /\ ret.op = "RemoveTile"
    /\ ret.err = NoErr
    /\ OccupiedSquares(board) # {}
    /\ GetPremiumType(board, ret.pos) # Normal

\* C3: a PlaceTile on an occupied position returns the error "already occupied"
\* and leaves the whole board as it was: the square keeps its old tile.
C3_PlaceOnOccupied ==
    [][(ret'.op = "PlaceTile" /\ HasTileAt(board, ret'.pos)) =>
          /\ ret'.err = "position is already occupied"
          /\ board' = board
          /\ GetTile(board', ret'.pos) = GetTile(board, ret'.pos)]_vars

C3_Witness ==
    /\ ret.op = "PlaceTile"
    /\ ret.err = "position is already occupied"
    /\ GetTile(board, ret.pos) # Nil
    /\ GetTile(board, ret.pos) # ret.tile

\* C4: a position is valid exactly when 0 <= row < 15 and 0 <= col < 15; for a
\* position outside the grid PlaceTile and RemoveTile return an error and leave
\* the board alone, GetTile and GetSquare return nil, IsEmpty and HasTileAt
\* return false, GetAdjacentPositions returns nil, GetPremiumType returns Normal.
C4_OutsideGrid ==
    /\ \A p \in AroundGrid : IsValid(p) <=> InGrid(p)
    /\ \A p \in AroundGrid : IsValidPosition(board, p) <=> InGrid(p)
    /\ \A p \in OutsideGrid :
          /\ \A t \in Tiles : /\ PlaceTile(board, t, p).err # NoErr
                              /\ PlaceTile(board, t, p).board = board
          /\ RemoveTile(board, p).err # NoErr
          /\ RemoveTile(board, p).out = Nil
          /\ RemoveTile(board, p).board = board
          /\ GetTile(board, p) = Nil
          /\ GetSquare(board, p) = Nil
          /\ IsEmpty(board, p) = FALSE
          /\ HasTileAt(board, p) = FALSE
          /\ GetAdjacentPositions(board, p) = NilSlice
          /\ GetPremiumType(board, p) = Normal
    /\ (ret.op \in {"PlaceTile", "RemoveTile"} /\ ~InGrid(ret.pos)) => ret.err # NoErr
    /\ (ret.op \in {"GetTile", "GetSquare"} /\ ~InGrid(ret.pos)) => ret.out = Nil
    /\ (ret.op \in {"IsEmpty", "HasTileAt"} /\ ~InGrid(ret.pos)) => ret.out = FALSE
    /\ (ret.op = "GetAdjacentPositions" /\ ~InGrid(ret.pos)) => ret.out = NilSlice
    /\ (ret.op = "GetPremiumType" /\ ~InGrid(ret.pos)) => ret.out = Normal

C4_Witness ==
    /\ ret.op = "PlaceTile"
    /\ ~InGrid(ret.pos)
    /\ ret.err = "invalid position"
    /\ OccupiedSquares(board) # {}

\* C5: a PlaceTile on a valid empty position succeeds, and a successful
\* PlaceTile(tile, p) makes square p occupied by a tile equal to the one given
\* and leaves every other square as it was.
C5_PlaceEffect ==
    [][ret'.op = "PlaceTile" =>
          /\ (InGrid(ret'.pos) /\ ~HasTileAt(board, ret'.pos)) => ret'.err = NoErr
          /\ ret'.err = NoErr =>
                /\ InGrid(ret'.pos)
                /\ IsEmpty(board, ret'.pos)
                /\ HasTileAt(board', ret'.pos)
                /\ ~IsEmpty(board', ret'.pos)
                /\ GetTile(board', ret'.pos) = ret'.tile
                /\ \A q \in GridPositions \ {ret'.pos} :
                      SquareAt(board', q) = SquareAt(board, q)]_vars

C5_Witness ==
    /\ ret.op = "PlaceTile"
    /\ ret.err = NoErr
    /\ GetTile(board, ret.pos) = ret.tile
    /\ OccupiedSquares(board) \ {ret.pos} # {}

\* C6: the tile a successful PlaceTile put on a square is the one GetTile
\* returns, and it stays there, unchanged, through every call that is not a
\* successful RemoveTile of its position: no PlaceTile, at its position or
\* elsewhere, and no read empties or overwrites an occupied square.
C6_TilesStay ==
    [][/\ (ret'.op = "PlaceTile" /\ ret'.err = NoErr) =>
             GetTile(board', ret'.pos) = ret'.tile
       /\ \A p \in GridPositions :
             (/\ GetTile(board, p) # Nil
              /\ ~(ret'.op = "RemoveTile" /\ ret'.pos = p /\ ret'.err = NoErr))
             => GetTile(board', p) = GetTile(board, p)]_vars

C6_Witness ==
    /\ ret.op = "GetTile"
    /\ ret.out # Nil
    /\ OccupiedSquares(board) \ {ret.pos} # {}

\* C7: RemoveTile(p) of an occupied square returns the tile on it and empties
\* that square only; of an empty square it returns an error and changes
\* nothing; and removing the tile a PlaceTile has just placed gives back the
\* board as it was before the placement, and the tile.
C7_RemoveEffect ==
    [][/\ ret'.op = "RemoveTile" =>
             IF HasTileAt(board, ret'.pos)
             THEN /\ ret'.err = NoErr
                  /\ ret'.out # Nil
                  /\ ret'.out = GetTile(board, ret'.pos)
                  /\ IsEmpty(board', ret'.pos)
                  /\ ~HasTileAt(board', ret'.pos)
                  /\ GetTile(board', ret'.pos) = Nil
                  /\ \A q \in GridPositions \ {ret'.pos} :
                        SquareAt(board', q) = SquareAt(board, q)
             ELSE /\ ret'.err # NoErr
                  /\ ret'.out = Nil
                  /\ board' = board
       /\ (ret'.op = "PlaceTile" /\ ret'.err = NoErr) =>
             RemoveTile(board', ret'.pos) = Result(board, NoErr, ret'.tile)]_vars

C7_Witness ==
    /\ ret.op = "RemoveTile"
    /\ ret.err = NoErr
    /\ ret.out # Nil
    /\ IsEmpty(board, ret.pos)
    /\ OccupiedSquares(board) # {}

(***************************************************************************)
(* Position claims, checked under PosSpec                                  *)
(***************************************************************************)
ColumnLetters ==
    << "A", "B", "C", "D", "E", "F", "G", "H", "I", "J", "K", "L", "M", "N", "O" >>

RowNumbers ==
    << <<"1">>, <<"2">>, <<"3">>, <<"4">>, <<"5">>, <<"6">>, <<"7">>, <<"8">>, <<"9">>,
       <<"1","0">>, <<"1","1">>, <<"1","2">>, <<"1","3">>, <<"1","4">>, <<"1","5">> >>

\* the label of a position of the grid: column letter, then 1-based row number
Label(p) == << ColumnLetters[p.Col + 1] >> \o RowNumbers[p.Row + 1]

Labels == {Label(p) : p \in GridPositions}

\* C8: for a valid position p, p.String() is the column letter A-O followed by
\* the row number 1-15 ((7,7) is H8, (14,14) is O15), NewPositionFromString of
\* it succeeds and returns p, and no other position has the same label.
C8_LabelRoundTrip ==
    InGrid(pin.p) =>
        /\ pout.op \in {"String", "ParseLabel"} =>
              /\ pout.label = Label(pin.p)
              /\ pin.p = Pos(7, 7) => pout.label = << "H", "8" >>
              /\ pin.p = Pos(14, 14) => pout.label = << "O", "1", "5" >>
              /\ \A q \in GridPositions \ {pin.p} : String(q) # pout.label
        /\ pout.op = "ParseLabel" => pout.r = [err |-> NoErr, pos |-> pin.p]

C8_Witness ==
    /\ pout.op = "ParseLabel"
    /\ pin.p = Pos(14, 14)
    /\ pout.label = << "O", "1", "5" >>
    /\ pout.r = [err |-> NoErr, pos |-> Pos(14, 14)]

\* C9: NewPositionFromString returns an error for every input that, trimmed
\* and upper-cased, is not a column letter A-O followed by the decimal row
\* number 1-15, and a position it returns without error lies inside the grid.
C9_RejectsNonLabels ==
    pout.op = "NewPositionFromString" =>
        /\ ToUpper(TrimSpace(pin.s)) \notin Labels => pout.r.err # NoErr
        /\ pout.r.err = NoErr => InGrid(pout.r.pos)

(***************************************************************************)
(* Rack claims, checked under RackSpec                                     *)
(***************************************************************************)
\* C10: after any sequence of AddTilesToRack, RemoveTilesFromRack,
\* RemoveTilesByValue and ClearRack calls on a player from NewPlayer the rack
\* holds between 0 and 7 tiles; IsRackFull is true exactly at 7 tiles and
\* IsRackEmpty exactly at 0.
C10_RackCapacity ==
    /\ Len(player.Rack) \in 0..7
    /\ GetRackSize(player) = Len(player.Rack)
    /\ IsRackFull(player) <=> Len(player.Rack) = 7
    /\ IsRackEmpty(player) <=> Len(player.Rack) = 0
    /\ pret.op = "GetRackSize" => pret.out \in 0..7
    /\ pret.op = "IsRackFull" => (pret.out <=> Len(player.Rack) = 7)
    /\ pret.op = "IsRackEmpty" => (pret.out <=> Len(player.Rack) = 0)

C10_Witness ==
    /\ pret.op = "AddTilesToRack"
    /\ pret.err # NoErr
    /\ Len(player.Rack) = 7
    /\ IsRackFull(player)

\* C11: AddTilesToRack(ts) is all-or-nothing: when the rack size plus len(ts)
\* exceeds 7 it returns an error and the player is as before; otherwise it
\* succeeds and the rack is the old rack followed by ts in order, nothing else
\* of the player changing; an empty ts succeeds and changes nothing.
C11_AddAllOrNothing ==
    [][pret'.op = "AddTilesToRack" =>
           LET ts == pret'.tiles IN
           /\ IF Len(player.Rack) + Len(ts) > 7
              THEN pret'.err # NoErr /\ player' = player
              ELSE /\ pret'.err = NoErr
                   /\ Len(player'.Rack) = Len(player.Rack) + Len(ts)
                   /\ \A i \in 1..Len(player.Rack) : player'.Rack[i] = player.Rack[i]
                   /\ \A i \in 1..Len(ts) : player'.Rack[Len(player.Rack) + i] = ts[i]
                   /\ [player' EXCEPT !.Rack = player.Rack] = player
           /\ ts = << >> => pret'.err = NoErr /\ player' = player]_vars

\* a batch of two refused at six tiles, the six tiles still there
C11_Witness ==
    /\ pret.op = "AddTilesToRack"
    /\ pret.err # NoErr
    /\ Len(pret.tiles) = 2
    /\ Len(player.Rack) = 6

\* how many tiles of a sequence equal t in Letter, Points and IsBlank
CountOf(s, t) == Cardinality({i \in 1..Len(s) : s[i] = t})

TilesOf(s) == {s[i] : i \in 1..Len(s)}

\* ts is a sub-multiset of rack
SubMultiset(ts, rack) == \A t \in TilesOf(ts) : CountOf(ts, t) <= CountOf(rack, t)

\* C12: RemoveTilesByValue(ts) with ts a sub-multiset of the rack succeeds and
\* removes exactly one rack tile per requested tile (every tile value is held
\* as often as before less the times it was requested); with a requested tile
\* not held it returns an error and the player is as before.
C12_RemoveByValue ==
    [][pret'.op = "RemoveTilesByValue" =>
           LET ts == pret'.tiles IN
           IF SubMultiset(ts, player.Rack)
           THEN /\ pret'.err = NoErr
                /\ Len(player'.Rack) = Len(player.Rack) - Len(ts)
                /\ \A t \in TilesOf(player.Rack) :
                       CountOf(player'.Rack, t) = CountOf(player.Rack, t) - CountOf(ts, t)
                /\ TilesOf(player'.Rack) \subseteq TilesOf(player.Rack)
                /\ [player' EXCEPT !.Rack = player.Rack] = player
           ELSE pret'.err # NoErr /\ player' = player]_vars

\* one A removed from a rack that held two, one A left
C12_Witness ==
    /\ pret.op = "RemoveTilesByValue"
    /\ pret.err = NoErr
    /\ pret.tiles = << Tile(Ord("A"), 1, FALSE) >>
    /\ CountOf(player.Rack, Tile(Ord("A"), 1, FALSE)) = 1

\* tile values asked for: the two held in racks and a blank carrying the letter A
QueryTiles == RackTiles \cup {Tile(Ord("A"), 0, TRUE)}

\* requests of up to three tiles
QueryLists == UNION {[1..n -> QueryTiles] : n \in 0..3}

\* C13: HasTiles(ts) is true exactly when ts is a sub-multiset of the rack
\* under (Letter, Points, IsBlank) equality, a rack tile answering for one
\* requested tile at most; the empty list is always held; and HasTiles(ts) is
\* true exactly when RemoveTilesByValue(ts) on the same rack succeeds.
C13_HasTiles ==
    /\ \A ts \in QueryLists :
           /\ HasTiles(player, ts) <=> SubMultiset(ts, player.Rack)
           /\ HasTiles(player, ts) <=> RemoveTilesByValue(player, ts).err = NoErr
    /\ HasTiles(player, << >>)
    /\ pret.op = "HasTiles" => (pret.out <=> SubMultiset(pret.tiles, player.Rack))

\* two A held: HasTiles([A, A]) answered true, and [A, A, A] is not held
C13_Witness ==
    LET A == Tile(Ord("A"), 1, FALSE) IN
    /\ pret.op = "HasTiles"
    /\ pret.tiles = << A, A >>
    /\ pret.out = TRUE
    /\ CountOf(player.Rack, A) = 2
    /\ ~HasTiles(player, << A, A, A >>)

\* index lists of up to two indices from one before the rack to one past its end
AllIndexLists(p) == UNION {[1..n -> -1..Len(p.Rack)] : n \in 0..2}

\* the tiles of rack from position k on whose indices (from 0) are not in idx
RECURSIVE KeepFrom(_, _, _)
KeepFrom(rack, idx, k) ==
    IF k > Len(rack) THEN << >>
    ELSE (IF (k - 1) \in idx THEN << >> ELSE << rack[k] >>) \o KeepFrom(rack, idx, k + 1)

\* C14: RemoveTilesFromRack(indices) with an index out of range (negative or
\* >= rack size) or repeated returns an error and leaves the player as before;
\* otherwise it returns the tiles at those indices in the order given, and
\* the rack is the old rack without the tiles at those indices, the others in
\* their order; an empty index list succeeds with no change.
C14_RemoveByIndex ==
    /\ \A indices \in AllIndexLists(player) :
           LET r == RemoveTilesFromRack(player, indices)
               n == Len(player.Rack)
               idx == {indices[i] : i \in 1..Len(indices)}
           IN  IF \/ \E i \in idx : i < 0 \/ i >= n
                  \/ Cardinality(idx) < Len(indices)
               THEN r.err # NoErr /\ r.player = player
               ELSE /\ r.err = NoErr
                    /\ Len(r.out) = Len(indices)
                    /\ \A i \in 1..Len(indices) : r.out[i] = player.Rack[indices[i] + 1]
                    /\ r.player.Rack = KeepFrom(player.Rack, idx, 1)
                    /\ [r.player EXCEPT !.Rack = player.Rack] = player
    /\ LET r == RemoveTilesFromRack(player, << >>) IN
           r.err = NoErr /\ r.player = player
    /\ pret.op = "RemoveTilesFromRack" /\ pret.err = NoErr
           => Len(pret.out) = Len(pret.indices)

\* the last and the first tile removed in one call, returned in that order,
\* with tiles left in the rack
C14_Witness ==
    /\ pret.op = "RemoveTilesFromRack"
    /\ pret.err = NoErr
    /\ Len(pret.indices) = 2
    /\ pret.indices[1] > pret.indices[2]
    /\ pret.out[1] # pret.out[2]
    /\ Len(player.Rack) >= 2
    /\ player.Rack[1] # player.Rack[2]

(***************************************************************************)
(* Tile bag claims, checked under BagSpec                                  *)
(***************************************************************************)
Min(a, b) == IF a < b THEN a ELSE b

\* C15: DrawTiles(n) returns exactly min(n, RemainingCount()) tiles for n > 0
\* and no tile for n <= 0 or an empty bag; the bag loses exactly the tiles
\* returned (every tile value is in the bag as often as before less the times
\* it was returned, RemainingCount dropping by the number returned); and when
\* fewer than n tiles are returned the bag is empty afterwards.
C15_DrawTiles ==
    [][bret'.op = "DrawTiles" =>
           LET n == bret'.count
               was == RemainingCount(bag)
               out == bret'.out
           IN  /\ n > 0 => Len(out) = Min(n, was)
               /\ n <= 0 \/ was = 0 => out = << >>
               /\ RemainingCount(bag') = was - Len(out)
               /\ \A t \in TilesOf(bag.tiles) \cup TilesOf(out) :
                      CountOf(bag'.tiles, t) = CountOf(bag.tiles, t) - CountOf(out, t)
               /\ Len(out) < n => RemainingCount(bag') = 0]_vars

\* 101 tiles asked of a bag of 93: 93 returned, the bag empty
C15_Witness ==
    /\ bret.op = "DrawTiles"
    /\ bret.count = 101
    /\ Len(bret.out) = 93
    /\ RemainingCount(bag) = 0
    /\ BagIsEmpty(bag)

\* the same tiles, each as often, in any order
SameTiles(a, b) ==
    \E x \in {a}, y \in {b} :
        /\ Len(x) = Len(y)
        /\ \A t \in TilesOf(x) : CountOf(x, t) = CountOf(y, t)

StandardQuantities ==
    << 9, 2, 2, 4, 12, 2, 3, 2, 9, 1, 1, 4, 2, 6, 8, 2, 1, 6, 4, 6, 4, 2, 2, 1, 2, 1 >>

\* the runes of the characters that are not letters
NonLetters ==
    {Ord(c) : c \in Chars}
        \ ((Ord("A")..Ord("Z")) \cup (Ord("a")..Ord("z")))

InBody == {p \in Procs : procs[p].pc \in {"copy", "truncate", "append", "shuffle", "unlock"}}

\* the tiles out of the bag from goroutine p on: those the callers hold and
\* those a DrawTiles call has taken and is about to return
RECURSIVE TilesOut(_)
TilesOut(p) ==
    IF p \notin Procs THEN << >>
    ELSE held[p]
         \o (IF procs[p].pc = "unlock" THEN procs[p].drawn ELSE << >>)
         \o TilesOut(p + 1)

\* C16: with goroutines calling DrawTiles and ReturnTiles on one bag at the
\* same time, no two calls are between Lock and Unlock together, so each
\* takes effect as one; RemainingCount is never negative; and the tiles in the
\* bag together with the tiles drawn and not yet returned are the 100 tiles
\* of the new bag and the tiles returned from outside, each as often: no tile
\* is lost, and none is handed out twice.
C16_NoTileLostOrDuplicated ==
    /\ Cardinality(InBody) <= 1
    /\ \A p \in InBody : bag.mu = p
    /\ RemainingCount(bag) >= 0
    /\ SameTiles(bag.tiles \o TilesOut(Main),
                 letterTiles(Ord("A")) \o blankTiles \o foreign)

\* a goroutine is in the body of DrawTiles, the tiles copied and still in the
\* bag, while another that drew seven tiles before waits for the mutex
C16_Witness ==
    \E p, q \in Procs :
        /\ p # q
        /\ procs[p].pc = "truncate"
        /\ bag.mu = p
        /\ procs[q].pc = "lock"
        /\ Len(held[q]) = 7
        /\ RemainingCount(bag) = 93

(***************************************************************************)
(* Claims on tiles moving between bag, rack and board, checked under       *)
(* FlowSpec                                                                *)
(***************************************************************************)
\* the tiles on the squares of row r from column c on
RECURSIVE RowTiles(_, _, _)
RowTiles(b, r, c) ==
    IF c >= BoardSize THEN << >>
    ELSE b.Grid[r][c].Tile \o RowTiles(b, r, c + 1)

\* the tiles on the board from row r on
RECURSIVE BoardTiles(_, _)
BoardTiles(b, r) ==
    IF r >= BoardSize THEN << >>
    ELSE RowTiles(b, r, 0) \o BoardTiles(b, r + 1)

\* every tile there is: in the bag, with the caller, in the rack, on the board
AllTiles == bag.tiles \o held[Main] \o player.Rack \o BoardTiles(board, 0)

\* C19: blank tiles carry point value 0: every blank in the new bag has
\* Points 0, and DrawTiles, ReturnTiles, AddTilesToRack, RemoveTilesFromRack,
\* RemoveTilesByValue, ClearRack, PlaceTile and RemoveTile hand every tile on
\* with its Letter, Points and IsBlank as they were (the tiles in the bag, with
\* the caller, in the rack and on the board are always the 100 tiles of the
\* new bag), so that a blank has Points 0 wherever it is, on a premium
\* square too.
C19_BlankIsZero ==
    /\ \A i \in 1..Len(AllTiles) : AllTiles[i].IsBlank => AllTiles[i].Points = 0
    /\ SameTiles(AllTiles, letterTiles(Ord("A")) \o blankTiles)
    /\ \A pos \in Probes :
           IsValidPosition(board, pos) /\ SquareAt(board, pos).Occupied
               /\ SquareAt(board, pos).Tile[1].IsBlank
               => SquareAt(board, pos).Tile[1].Points = 0
    /\ calls = 0 => \A i \in 1..Len(bag.tiles) :
                        bag.tiles[i].IsBlank => bag.tiles[i].Points = 0

\* a blank drawn from the bag, put in the rack, taken from it and placed on
\* a premium square, with Points 0
C19_Witness ==
    \E pos \in Probes :
        /\ IsValidPosition(board, pos)
        /\ SquareAt(board, pos).Occupied
        /\ SquareAt(board, pos).Premium # Normal
        /\ SquareAt(board, pos).Tile = Ptr(Tile(0, 0, TRUE))
        /\ Len(player.Rack) = 6
        /\ RemainingCount(bag) = 93

(***************************************************************************)
(* Player claims under concurrent callers, checked under ScoreSpec         *)
(***************************************************************************)
\* the sum of the amounts of the AddScore calls returned from, goroutine p on
RECURSIVE SumAdded(_)
SumAdded(p) ==
    IF p \notin Procs THEN 0
    ELSE workers[p].added + SumAdded(p + 1)

\* C20: with goroutines calling AddScore(k), GetScore and SetActive on one
\* player at the same time, no score update is lost: once every call has
\* returned the score is the initial score, 0, plus the sum of all the
\* amounts added; and the rack is the one the player had.
C20_NoLostUpdate ==
    /\ (\A p \in Procs : workers[p].pc = "idle") => player.Score = 0 + SumAdded(Main)
    /\ player.Rack = initialTiles

\* two goroutines have added 1 and 5 and a SetActive(false) has gone through:
\* the score is 6
C20_Witness ==
    /\ \A p \in Procs : workers[p].pc = "idle"
    /\ calls = 3
    /\ \E p, q \in Procs : workers[p].added = 1 /\ workers[q].added = 5
    /\ ~player.IsActive
    /\ player.Score = 6

(***************************************************************************)
(* Rack claims under concurrent callers, checked under RackConcSpec        *)
(***************************************************************************)
\* the goroutines in the body of a call that holds the write lock
InRackBody(p) == workers[p].pc \in {"capacity", "append", "validate", "extract", "remove"}

\* the player as the call of goroutine p found it
PlayerBefore(p) == [player EXCEPT !.Rack = workers[p].before]

\* what the call of goroutine p returns and leaves when nothing runs between
\* its first step and its last
AtomicCall(p) ==
    IF workers[p].op = "AddTilesToRack"
    THEN AddTilesToRack(PlayerBefore(p), workers[p].tiles)
    ELSE RemoveTilesFromRack(PlayerBefore(p), workers[p].indices)

\* the number of tiles equal to t in the sequences f gives the goroutines, p on
RECURSIVE CountOver(_, _, _)
CountOver(f, t, p) ==
    IF p \notin Procs THEN 0
    ELSE CountOf(f[p], t) + CountOver(f, t, p + 1)

\* the tiles a rack of RackConcSpec can hold
ConcTiles == UNION { TilesOf(s) : s \in StartRacks } \cup { RackerTiles(p)[1] : p \in Procs }

\* C21: with goroutines calling AddTilesToRack, RemoveTilesFromRack,
\* GetRackSize and HasTile on one player at the same time, the rack holds
\* between 0 and 7 tiles; no other goroutine changes the rack while a call is
\* in its body, and the call returns and leaves what it would have run alone;
\* whenever no call holds the write lock the rack is the tiles it started
\* with and the tiles added by the calls that returned nil, less the tiles
\* the successful removals returned; and a removal whose index is no longer
\* in the rack returns an error and leaves the rack as it found it.
C21_ConcurrentRack ==
    /\ Len(player.Rack) \in 0..MaxRackSize
    /\ \A p \in Procs :
           /\ workers[p].err # "panic"
           /\ InRackBody(p) => player.Rack = workers[p].before /\ player.mu.writer = p
           /\ workers[p].pc = "unlock" =>
                  /\ player.Rack = AtomicCall(p).player.Rack
                  /\ workers[p].err = AtomicCall(p).err
                  /\ workers[p].out = AtomicCall(p).out
           /\ (/\ workers[p].pc = "unlock"
               /\ workers[p].op = "RemoveTilesFromRack"
               /\ workers[p].indices[1] >= Len(workers[p].before)) =>
                  /\ workers[p].err # NoErr
                  /\ player.Rack = workers[p].before
    /\ player.mu.writer = 0 =>
           \A t \in ConcTiles :
               CountOf(player.Rack, t)
                   + CountOver([p \in Procs |-> workers[p].removed], t, 1)
               = CountOf(pret.tiles, t)
                   + CountOver([p \in Procs |-> workers[p].added], t, 1)

\* a goroutine saw one tile in the rack and asks for it to be removed after
\* another goroutine has removed it: the call has returned an error, the rack
\* is still empty, and the mutex is still held
C21_Witness ==
    \E p \in Procs :
        /\ workers[p].pc = "unlock"
        /\ workers[p].op = "RemoveTilesFromRack"
        /\ workers[p].size = 1
        /\ workers[p].indices = << 0 >>
        /\ workers[p].err = "invalid rack index"
        /\ player.Rack = << >>
        /\ workers[p].before = << >>
        /\ \E q \in Procs \ {p} : Len(workers[q].removed) = 1

(***************************************************************************)
(* Claims about reading the rack, checked under ViewSpec                   *)
(***************************************************************************)
\* C22: GetRack returns the tiles of the rack in rack order and leaves the
\* player as it was; an assignment to an element of the returned slice
\* leaves the rack as it was, so that the next GetRack returns the tiles the
\* rack held before the assignment.
C22_GetRackCopies ==
    [][/\ pret'.op = "GetRack" =>
              /\ Len(pret'.out.items) = Len(player.Rack)
              /\ \A i \in 1..Len(player.Rack) : pret'.out.items[i] = player.Rack[i]
              /\ player' = player
       /\ pret'.op = "rack[index] = tile" =>
              /\ player'.Rack = player.Rack
              /\ GetRack(player').items = player.Rack]_vars

\* the first element of the slice returned for a rack of seven tiles has
\* been overwritten with Z: the slice shows Z and the rack does not
C22_Witness ==
    /\ pret.op = "rack[index] = tile"
    /\ pret.indices = << 0 >>
    /\ Len(player.Rack) = MaxRackSize
    /\ pret.out.items[1] = WrittenTile
    /\ player.Rack[1] # WrittenTile
    /\ \A i \in 2..MaxRackSize : pret.out.items[i] = player.Rack[i]

\* the tiles of a rack that are not blank
RECURSIVE WithoutBlanks(_)
WithoutBlanks(rack) ==
    IF rack = << >> THEN << >>
    ELSE IF Head(rack).IsBlank THEN WithoutBlanks(Tail(rack))
    ELSE << Head(rack) >> \o WithoutBlanks(Tail(rack))

\* the points of the tiles of a set of tile kinds, each times the number of
\* tiles of its kind in the rack
RECURSIVE PointsByKind(_, _)
PointsByKind(rack, kinds) ==
    IF kinds = {} THEN 0
    ELSE LET t == CHOOSE k \in kinds : TRUE IN
         CountOf(rack, t) * t.Points + PointsByKind(rack, kinds \ {t})

\* C25: GetRackValue returns the sum of the Points of the tiles in the rack,
\* to which blank tiles add nothing and which is 0 for the empty rack, and
\* leaves the player, rack and score, as it was.
C25_RackValue ==
    /\ [](pret.op = "GetRackValue" =>
             /\ pret.out = PointsByKind(player.Rack, ViewTiles)
             /\ pret.out = PointsByKind(WithoutBlanks(player.Rack), ViewTiles)
             /\ player.Rack = << >> => pret.out = 0)
    /\ [][pret'.op = "GetRackValue" => player' = player]_vars

\* the value of a rack of three A, one B and two blanks has been read: 6
C25_Witness ==
    /\ pret.op = "GetRackValue"
    /\ CountOf(player.Rack, Tile(Ord("A"), 1, FALSE)) = 3
    /\ CountOf(player.Rack, Tile(Ord("B"), 3, FALSE)) = 1
    /\ CountOf(player.Rack, Tile(0, 0, TRUE)) = 2
    /\ Len(player.Rack) = 6
    /\ player.Rack[1].IsBlank
    /\ pret.out = 6

(***************************************************************************)
(* Claims about the neighbours of a square, checked under Spec             *)
(***************************************************************************)
\* q is one square up, down, left or right of p
SharesEdge(p, q) ==
    \/ p.Row = q.Row /\ (p.Col = q.Col + 1 \/ q.Col = p.Col + 1)
    \/ p.Col = q.Col /\ (p.Row = q.Row + 1 \/ q.Row = p.Row + 1)

\* the positions a slice of positions holds
PositionsOf(s) == {s.items[i] : i \in 1..Len(s.items)}

\* the number of border lines of the grid the square p lies on
BordersAt(p) ==
    (IF p.Row = 0 \/ p.Row = BoardSize - 1 THEN 1 ELSE 0)
    + (IF p.Col = 0 \/ p.Col = BoardSize - 1 THEN 1 ELSE 0)

\* the positions of the grid at most two rows and two columns from p
Near(p) ==
    {q \in GridPositions : q.Row - p.Row \in -2..2 /\ q.Col - p.Col \in -2..2}

\* C23: after a GetAdjacentPositions call on a board with any tiles placed,
\* for every position p of the grid GetAdjacentPositions(p) lists, each once,
\* exactly the grid positions one square up, down, left or right of p: four
\* for an inner square, three on an edge off the corners, two in a corner;
\* all are valid, p and its diagonal neighbours are not among them, and q is
\* listed for p exactly when p is listed for q.  The call made returned this
\* list for the position it was given.
C23_Adjacent ==
    ret.op = "GetAdjacentPositions" =>
        /\ ret.out = GetAdjacentPositions(board, ret.pos)
        /\ \A p \in GridPositions :
               LET adj == GetAdjacentPositions(board, p) IN
               /\ ~adj.nil
               /\ PositionsOf(adj) = {q \in GridPositions : SharesEdge(p, q)}
               /\ Len(adj.items) = Cardinality(PositionsOf(adj))
               /\ Len(adj.items) = 4 - BordersAt(p)
               /\ \A q \in PositionsOf(adj) : IsValidPosition(board, q) /\ IsValid(q)
               /\ p \notin PositionsOf(adj)
               /\ \A q \in GridPositions :
                      (q.Row # p.Row /\ q.Col # p.Col) => q \notin PositionsOf(adj)
               /\ \A q \in Near(p) :
                      q \in PositionsOf(adj)
                          <=> p \in PositionsOf(GetAdjacentPositions(board, q))

\* the neighbours of the corner A1 have been asked for on a board that holds
\* a tile: the two squares B1 and A2
C23_Witness ==
    /\ ret.op = "GetAdjacentPositions"
    /\ ret.pos = Pos(0, 0)
    /\ ~ret.out.nil
    /\ PositionsOf(ret.out) = {Pos(1, 0), Pos(0, 1)}
    /\ \E p \in GridPositions : SquareAt(board, p).Occupied

(***************************************************************************)
(* Claims about the occupied squares, checked under Spec                   *)
(***************************************************************************)
\* the call made placed a tile
Placed(r) == r.op = "PlaceTile" /\ r.err = NoErr

\* the call made removed a tile
Removed(r) == r.op = "RemoveTile" /\ r.err = NoErr

\* C24: IsFirstMove is true exactly when no square is occupied, and
\* GetOccupiedPositions lists, each once, exactly the positions that hold a
\* tile; the new board reports the first move and no position, a board with a
\* tile does not report the first move; and the number of positions listed
\* is the number of PlaceTile calls that returned nil less the number of
\* RemoveTile calls that returned nil: 0 on the new board, one more after
\* each such PlaceTile, one less after each such RemoveTile, and the same
\* after every other call.
C24_Occupied ==
    /\ [](LET occupied == GetOccupiedPositions(board) IN
          /\ IsFirstMove(board) <=> OccupiedSquares(board) = {}
          /\ ~occupied.nil
          /\ PositionsOf(occupied) = OccupiedSquares(board)
          /\ Len(occupied.items) = Cardinality(OccupiedSquares(board))
          /\ \A p \in PositionsOf(occupied) : GetTile(board, p) # Nil
          /\ ret.op = "NewBoard" => IsFirstMove(board) /\ occupied.items = << >>
          /\ ret.op = "IsFirstMove" => ret.out = IsFirstMove(board)
          /\ ret.op = "GetOccupiedPositions" => ret.out = occupied)
    /\ [][Len(GetOccupiedPositions(board').items)
              = Len(GetOccupiedPositions(board).items)
                  + (IF Placed(ret') THEN 1 ELSE 0) - (IF Removed(ret') THEN 1 ELSE 0)]_vars

\* IsFirstMove has been asked on a board whose one tile is in the corner A1
\* and is not on the centre square: it answered no
C24_Witness ==
    /\ ret.op = "IsFirstMove"
    /\ ret.out = FALSE
    /\ OccupiedSquares(board) = {Pos(0, 0)}
    /\ GetOccupiedPositions(board).items = << Pos(0, 0) >>

(***************************************************************************)
(* Claims about ValidateBoard, checked under ValidateSpec                  *)
(***************************************************************************)
\* the number of squares of the grid whose premium type is pt
PremiumCount(b, pt) == Cardinality({p \in GridPositions : b.Grid[p.Row][p.Col].Premium = pt})

\* C26: on a board whose Center and Premium fields a caller may have
\* assigned to, ValidateBoard returns an error whenever Center is not row 7,
\* column 7, or the numbers of squares per premium type are not 164 normal,
\* 24 double-letter, 12 triple-letter, 17 double-word and 8 triple-word, or
\* the square in row 7, column 7 is not double-word; it returns nil as long
\* as the board from NewBoard has only had PlaceTile and RemoveTile called on
\* it; and the call leaves the board as it was.
C26_ValidateBoard ==
    /\ []((\/ board.Center # Pos(7, 7)
           \/ PremiumCount(board, Normal) # 164
           \/ PremiumCount(board, DoubleLetterScore) # 24
           \/ PremiumCount(board, TripleLetterScore) # 12
           \/ PremiumCount(board, DoubleWordScore) # 17
           \/ PremiumCount(board, TripleWordScore) # 8
           \/ board.Grid[7][7].Premium # DoubleWordScore)
              => ValidateBoard(board) # NoErr)
    /\ [](calls = 0 => ValidateBoard(board) = NoErr)
    /\ [](ret.op = "ValidateBoard" => ret.err = ValidateBoard(board))
    /\ [][ret'.op = "ValidateBoard" => board' = board]_vars

\* ValidateBoard has returned an error for a board with tiles on it whose
\* centre square was made normal and whose normal square I8 was made
\* double-word: Center and the numbers of squares per premium type are the
\* right ones
C26_Witness ==
    /\ ret.op = "ValidateBoard"
    /\ ret.err # NoErr
    /\ board.Center = Pos(7, 7)
    /\ \A pt \in PremiumTypes : PremiumCount(board, pt) = PremiumCount(NewBoard, pt)
    /\ board.Grid[7][7].Premium = Normal
    /\ board.Grid[7][8].Premium = DoubleWordScore
    /\ OccupiedSquares(board) # {}

(***************************************************************************)
(* Claims about player IDs, checked under CreateSpec                       *)
(***************************************************************************)
\* C27: a player made with a non-empty id has that id as its ID; a player
\* made with the empty id has a non-empty ID; and two players made with the
\* empty id have different IDs.
C27_UniqueIDs ==
    \A i \in 1..Len(created) :
        /\ created[i].id # "" => created[i].player.ID = created[i].id
        /\ created[i].id = "" => created[i].player.ID # ""
        /\ \A j \in 1..Len(created) :
               (i # j /\ created[i].id = "" /\ created[j].id = "")
                   => created[i].player.ID # created[j].player.ID

\* the racks of the players from the i-th on, one after the other
RECURSIVE RacksFrom(_, _)
RacksFrom(players, i) ==
    IF i > Len(players) THEN << >>
    ELSE players[i].Rack \o RacksFrom(players, i + 1)

\* every tile of a game as a rack holds it: in the supply, in the racks, on the board
GameTiles(g, b, tb) ==
    tb.tiles \o RacksFrom(g.Players, 1)
             \o [i \in 1..Len(BoardTiles(b, 0)) |-> RackForm(BoardTiles(b, 0)[i])]

\* the squares of the board
Squares == {Pos(r, c) : r \in 0..(BoardSize - 1), c \in 0..(BoardSize - 1)}

\* a step that commits the move m of the player who: the tiles stand on
\* squares that were empty and nothing else on the board changes, the rack
\* is refilled, the score grows by the move's, the history by the move, the
\* turn passes on, and no tile is lost or made
Committed(who, m) ==
    /\ game.State = InProgress
    /\ who = game.CurrentTurn + 1
    /\ m.Tiles # << >>
    /\ \A i \in 1..Len(m.Tiles) :
           /\ ~board.Grid[m.Tiles[i].Position.Row][m.Tiles[i].Position.Col].Occupied
           /\ board'.Grid[m.Tiles[i].Position.Row][m.Tiles[i].Position.Col].Occupied
           /\ board'.Grid[m.Tiles[i].Position.Row][m.Tiles[i].Position.Col].Tile
                  = Ptr(m.Tiles[i].Tile)
    /\ \A p \in Squares \ SetOf(PlacedPositions(m.Tiles)) :
           board'.Grid[p.Row][p.Col] = board.Grid[p.Row][p.Col]
    /\ game'.History = Append(game.History, m)
    /\ m.PlayerID = game.Players[who].ID
    /\ game'.CurrentTurn = (game.CurrentTurn + 1) % Len(game.Players)
    /\ game'.Players[who].Score = game.Players[who].Score + m.Score
    /\ Len(game'.Players[who].Rack) = MaxRackSize \/ BagIsEmpty(bag')
    /\ \A i \in 1..Len(game.Players) : i # who => game'.Players[i] = game.Players[i]
    /\ SameTiles(GameTiles(game, board, bag), GameTiles(game', board', bag'))

\* every stage passes the placement of the player who
EveryStagePasses(who, placed) ==
    LET v == ValidateMove(board, placed, IsFirstMove(board))
        x == ExtractWords(board, v.placed, v.horizontal)
    IN  /\ v.err = NoErr
        /\ x.err = NoErr
        /\ CheckWords(game.Dictionary, x.words) = NoErr
        /\ SubMultiset([i \in 1..Len(placed) |-> RackForm(placed[i].Tile)],
                       game.Players[who].Rack)

\* C28: a submitted Move is all-or-nothing: a move that fails at any stage
\* leaves the board, every rack, the tile supply, the scores, the history and
\* the turn index as they were, and the same player retains the turn; only a
\* move that passes every stage mutates state and advances the turn.
C28_MoveAllOrNothing ==
    [][gret'.op = "Move" =>
          IF gret'.err # NoErr
          THEN board' = board /\ bag' = bag /\ game' = game
          ELSE /\ Len(game'.History) = Len(game.History) + 1
               /\ Committed(gret'.who, game'.History[Len(game'.History)])
               /\ EveryStagePasses(gret'.who, game'.History[Len(game'.History)].Tiles)]_vars

\* a move is rejected by the dictionary after another was committed, and
\* the board holds the tiles of the committed one only
C28_Witness ==
    /\ gret.op = "Move"
    /\ gret.err = "InvalidWord"
    /\ Len(game.History) = 1
    /\ Len(BoardTiles(board, 0)) = Len(game.History[1].Tiles)

\* C29: the game state only moves WaitingForPlayers -> InProgress ->
\* Finished: the game leaves WaitingForPlayers only by an explicit start with
\* two to four players, no state is entered again after it was left, and in
\* the state Finished no Move, Exchange or Pass is accepted and the board,
\* the racks, the scores and the turn index do not change.
C29_StateMachine ==
    [][/\ (game.State = WaitingForPlayers /\ game'.State # WaitingForPlayers) =>
              /\ gret'.op = "StartGame"
              /\ gret'.err = NoErr
              /\ Len(game.Players) \in 2..4
              /\ game'.State = InProgress
       /\ (gret'.op = "StartGame" /\ gret'.err = NoErr) =>
              /\ game.State = WaitingForPlayers
              /\ Len(game.Players) \in 2..4
       /\ game.State = InProgress => game'.State \in {InProgress, Finished}
       /\ game.State = Finished =>
              /\ game'.State = Finished
              /\ gret'.op \in {"Move", "Exchange", "Pass"} => gret'.err # NoErr
              /\ board' = board
              /\ game'.Players = game.Players
              /\ game'.CurrentTurn = game.CurrentTurn]_vars

\* a player's call on a finished game, which started with players who took
\* turns, has been rejected
C29_Witness ==
    /\ game.State = Finished
    /\ Len(game.Players) \in 2..4
    /\ game.Turns > 0
    /\ gret.op \in {"Move", "Exchange", "Pass"}
    /\ gret.err = "GameNotInProgress"

\* the scores of the players, in their order
Scores(g) == [i \in 1..Len(g.Players) |-> g.Players[i].Score]

\* C30: an Exchange is accepted only when the tile supply holds at least 7
\* tiles, and is rejected with ExchangeUnavailable, nothing changed, when it
\* holds fewer; an accepted exchange returns the chosen rack tiles to the
\* supply and draws as many, so that the player's rack size and the supply's
\* tile count are what they were, the board and all scores are unchanged,
\* and the turn passes to the next player.
C30_Exchange ==
    [][gret'.op = "Exchange" =>
          /\ gret'.err = NoErr => RemainingCount(bag) >= 7
          /\ (/\ game.State = InProgress
              /\ gret'.who = game.CurrentTurn + 1
              /\ RemainingCount(bag) < 7) => gret'.err = "ExchangeUnavailable"
          /\ gret'.err # NoErr => board' = board /\ bag' = bag /\ game' = game
          /\ gret'.err = NoErr =>
                 /\ game.State = InProgress
                 /\ gret'.who = game.CurrentTurn + 1
                 /\ Len(game'.Players[gret'.who].Rack) = Len(game.Players[gret'.who].Rack)
                 /\ RemainingCount(bag') = RemainingCount(bag)
                 /\ SameTiles(bag.tiles \o game.Players[gret'.who].Rack,
                              bag'.tiles \o game'.Players[gret'.who].Rack)
                 /\ \A i \in 1..Len(game.Players) :
                        i # gret'.who => game'.Players[i] = game.Players[i]
                 /\ board' = board
                 /\ Scores(game') = Scores(game)
                 /\ game'.History = game.History
                 /\ game'.CurrentTurn = (game.CurrentTurn + 1) % Len(game.Players)]_vars

\* an exchange has been accepted on a supply of at least 7 tiles, after a
\* move put tiles on the board
C30_Witness ==
    /\ gret.op = "Exchange"
    /\ gret.err = NoErr
    /\ RemainingCount(bag) >= 7
    /\ game.History # << >>
    /\ Len(game.Players[gret.who].Rack) = MaxRackSize

\* the positions around the grid, one step outside it
OutsidePositions ==
    {Pos(r, c) : r \in -1..BoardSize, c \in -1..BoardSize} \ GridPositions

\* C31: square occupancy is consistent in every state reached from NewBoard
\* through PlaceTile and RemoveTile: the Occupied flag of a square is true
\* exactly when its Tile is non-nil, so that at every valid position IsEmpty
\* is the negation of HasTileAt and GetTile is non-nil exactly when HasTileAt;
\* at invalid positions IsEmpty and HasTileAt are both false.
C31_Occupancy ==
    /\ \A p \in GridPositions :
           /\ SquareAt(board, p).Occupied <=> SquareAt(board, p).Tile # Nil
           /\ IsEmpty(board, p) <=> ~HasTileAt(board, p)
           /\ GetTile(board, p) # Nil <=> HasTileAt(board, p)
    /\ \A p \in OutsidePositions \cup (Probes \ GridPositions) :
           /\ ~IsEmpty(board, p)
           /\ ~HasTileAt(board, p)

\* a tile has been removed from a board that holds another one
C31_Witness ==
    /\ ret.op = "RemoveTile"
    /\ ret.err = NoErr
    /\ ~HasTileAt(board, ret.pos)
    /\ \E p \in GridPositions : HasTileAt(board, p)

\* the mutexes goroutine p holds
HeldBy(p) ==
    (IF bag.mu = p THEN {"tb.mu"} ELSE {})
        \cup (IF player.mu.writer = p THEN {"p.mu write"} ELSE {})
        \cup (IF p \in player.mu.readers THEN {"p.mu read"} ELSE {})

\* the mutex the operation of goroutine p locks
MutexOf(p) ==
    IF workers[p].op \in {"DrawTiles", "ReturnTiles", "RemainingCount"} THEN {"tb.mu"}
    ELSE IF workers[p].op \in {"ValidatePlayer", "String"} THEN {"p.mu read"}
    ELSE {"p.mu write"}

\* C32: no deadlock in the lock-guarded types: a TileBag or Player operation
\* holds no mutex while it waits for one (it locks once, and IsEmpty calls
\* RemainingCount without holding the lock), holds exactly its object's
\* mutex in its body, and holds none after any return, error returns
\* included; so with goroutines calling at the same time under a fair
\* scheduler every call returns.
C32_NoDeadlock ==
    /\ [](\A p \in Lockers :
              IF workers[p].pc \in {"body", "deferred"} THEN HeldBy(p) = MutexOf(p)
              ELSE HeldBy(p) = {})
    /\ \A p \in Lockers : (workers[p].pc # "idle") ~> (workers[p].pc = "idle")

\* a call is about to return an error while another goroutine waits for
\* the mutex it holds
C32_Witness ==
    \E p \in Lockers, q \in Lockers :
        /\ workers[p].pc = "deferred"
        /\ workers[p].err # NoErr
        /\ workers[q].pc = "p.mu.Lock"

\* the inspecting operations
PureOps ==
    {"ValidateBoard", "GetTile", "IsEmpty", "HasTileAt", "IsFirstMove",
     "GetOccupiedPositions", "GetAdjacentPositions", "HasTile", "HasTiles",
     "GetTileCount", "GetBlankCount", "GetRackValue", "ValidatePlayer",
     "RemainingCount", "IsEmpty (bag)"}

=============================================================================
